---- MODULE Spec2Model ----
(***************************************************************************)
(* Model of the exception handling package (Except.h / Except.c) in its    *)
(* single-threaded, non-DEBUG build: the frame stack of the context, the   *)
(* try / catch / finally / throw / return macros and the routines they     *)
(* call.  The user program is a nondeterministic choice, at every point of *)
(* user code, among the statements the package offers.                     *)
(***************************************************************************)
EXTENDS Integers, Sequences, FiniteSets, TLC

VARIABLES
    exStack,    \* pC->exStack: the frames (Except objects), bottom first
    exAlloc,    \* pC->exStack != NULL
    pEx,        \* pC->pEx: index of the frame it points to, 0 for NULL
    disp,       \* disposition of the trap signals
    saved,      \* pC->sig...Handler: the dispositions saved by the first try
    cs,         \* the C call stack: activations and their open try statements
    pc,         \* where the flow is: user code, catch evaluation, ...
    ck,         \* number of the catch clause that is evaluated next
    ev,         \* what the last step printed, returned or raised
    exited,     \* the try statements the last step left for good
    signalNumber, \* class->signalNumber of every class
    unwind,     \* the propagation that is followed: depth, steps, blocks
    moves,      \* number of steps the propagation that is followed has made
    config,     \* the build: "single", "private" or "shared" (EXCEPT_MT_...)
    numThreadsTry, \* number of flows in a try statement (shared handlers)
    sharedHandler, \* sharedSig...Handler: the dispositions saved, shared
    sigDisp,    \* the disposition of every trap signal, as every flow sees it
    flows,      \* of every flow: its context, frames and saved dispositions
    handled,    \* who handled the signal delivered last
    dClass,     \* ExceptIsDerived: argument <class>
    dBase,      \* ExceptIsDerived: argument <base>
    dRes,       \* ExceptIsDerived: result, "none" before the call
    aCatches,   \* DEBUG: the classes of the catch clauses of a try statement
    checked,    \* DEBUG: static int checked of that try statement
    audit,      \* DEBUG: where every flow is in the macro code of it
    diag,       \* DEBUG: the messages ExceptCheckBegin/ExceptCheck printed
    lifo,       \* of every flow: pObjects and pointer of its pC->exStack
    heap,       \* of every frame allocated so far: "live" or "freed"
    ceased,     \* the flows that ceased to exist without leaving their try
    cleaned,    \* what the last ExceptThreadCleanup() did
    mx,         \* the static variables of ExceptMutex() and the POSIX mutex
    thr,        \* of every flow: where it is in ExceptMutex()
    store,      \* pContextHash: NULL, or the context stored for each flow
    ctxs,       \* the contexts allocated so far
    job         \* of every flow: the engine operation it is executing

vars == <<exStack, exAlloc, pEx, disp, saved, cs, pc, ck, ev, exited,
          signalNumber, unwind, moves, config, numThreadsTry, sharedHandler,
          sigDisp, flows, handled, dClass, dBase, dRes, aCatches, checked, audit,
          diag, lifo, heap, ceased, cleaned, mx, thr, store, ctxs, job>>

engineVars == <<exStack, exAlloc, pEx, disp, saved, cs, pc, ck, ev, exited,
                signalNumber, unwind, moves>>
derivedVars == <<dClass, dBase, dRes>>
bridgeVars == <<config, numThreadsTry, sharedHandler, sigDisp, flows, handled>>
auditVars == <<aCatches, checked, audit, diag>>
cleanupVars == <<lifo, heap, ceased, cleaned>>
mutexVars == <<mx, thr>>
storeVars == <<store, ctxs, job>>
auxVars == <<auditVars, cleanupVars, mutexVars, storeVars>>

----------------------------------------------------------------------------
(* Bounds of the model *)

MaxDepth == 2       \* frames on the stack
MaxCalls == 2       \* nested subroutine activations
MaxNest == 4        \* frames on the stack of the programs that only return
MaxTrap == 3        \* frames on the stack of the programs nested deeper
MaxFrames == 2      \* frames of each of the flows that share signal handlers
MaxCatches == 3     \* catch clauses of the try statement that is audited
MaxRuns == 2        \* times a flow executes the try statement that is audited
MaxAllocs == 4      \* frames the flows with a frame store allocate in all
MaxHold == 2        \* nested protected sections of one flow
MaxTries == 1       \* try statements a flow of the build with threads executes
MaxMoves == 20      \* steps of a propagation that is followed
MaxHit == 1         \* flows that get a trap inside a protected section

----------------------------------------------------------------------------
(* Class registry *)

NULL == "NULL"

Parent ==
    [Throwable           |-> NULL,
     Exception           |-> "Throwable",
     OutOfMemoryError    |-> "Exception",
     FailedAssertion     |-> "Exception",
     RuntimeException    |-> "Exception",
     AbnormalTermination |-> "RuntimeException",
     ArithmeticException |-> "RuntimeException",
     IllegalInstruction  |-> "RuntimeException",
     SegmentationFault   |-> "RuntimeException",
     BusError            |-> "RuntimeException",
     Level1Exception     |-> "Exception",
     Level2Exception     |-> "Level1Exception",
     ReturnEvent         |-> NULL]

AllClasses == DOMAIN Parent

UserClasses == AllClasses \ {"ReturnEvent"}

\* faulty variant: the walk stops at the parent of <class>
ExceptIsDerivedOneStep(class, base) ==
    class = base \/ Parent[class] = base

RECURSIVE ExceptIsDerived(_, _)
ExceptIsDerived(class, base) ==
    IF Parent[class] # NULL /\ class # base
    THEN ExceptIsDerived(Parent[class], base)
    ELSE class = base

\* the trap signals and the class ExceptThrowSignal() assigns to each
Signals == {"SIGABRT", "SIGFPE", "SIGILL", "SIGSEGV", "SIGBUS"}

SignalClass ==
    [SIGABRT |-> "AbnormalTermination",
     SIGFPE  |-> "ArithmeticException",
     SIGILL  |-> "IllegalInstruction",
     SIGSEGV |-> "SegmentationFault",
     SIGBUS  |-> "BusError"]

\* class->signalNumber of a class no signal was translated to: 0
NoSignal == "0"

----------------------------------------------------------------------------
(* Values *)

\* the throw statements, catch lists and return values of the user program
ThrowStmts   == {[class |-> "Exception", data |-> "Hello", line |-> 574],
                 [class |-> "Level1Exception", data |-> "World", line |-> 557]}
CatchLists   == {<<>>, <<"Level1Exception">>,
                 <<"Level2Exception", "Exception">>}
ThrowFile    == "Test.c"
\* throw(e, "there!") of the rethrow statement
RethrowData  == "there!"
RethrowFile  == "Rethrow.c"
RethrowLine  == 577
\* assert(0) in a try block, a catch block, a finally block and outside
AssertExpr == "0"
AssertFile == "Test.c"
AssertLineIn(blk) ==
    CASE blk = "try" -> 631
      [] blk = "catch" -> 636
      [] blk = "finally" -> 645
      [] OTHER -> 614
\* every return() statement of a subroutine returns a value of its own:
\* 10 * s + 6 in the try block, 10 * s + 8 in the catch blocks and 10 * s + 7
\* in the finally block of the try statement at nesting depth s, and 3
\* outside the try statements
ReturnValueIn(s, blk) ==
    CASE blk = "try" -> 10 * s + 6
      [] blk = "catch" -> 10 * s + 8
      [] blk = "finally" -> 10 * s + 7
      [] OTHER -> 3

NullData == [k |-> "null", d |-> "",  act |-> 0, val |-> 0]
UserData(d) == [k |-> "data", d |-> d, act |-> 0, val |-> 0]
JmpBuf(a, v) == [k |-> "jmp", d |-> "", act |-> a, val |-> v]
StaleJmp(v)  == [k |-> "jmp", d |-> "", act |-> -1, val |-> v]

NoBuf == [a |-> 0, s |-> 0]
Stale == [a |-> -1, s |-> -1]
Here(a, s) == [a |-> a, s |-> s]

\* calloc(sizeof(Except), 1) with the fields ExceptTry() sets
NewFrame(first, own) ==
    [state |-> "EMPTY", class |-> NULL, pData |-> NullData, file |-> NULL,
     line |-> 0, ready |-> 0, scope |-> "INTERNAL", first |-> first,
     tb |-> NoBuf, fb |-> NoBuf, own |-> own, rd |-> "", prop |-> FALSE]

NewSite(catches) ==
    [blk |-> "try", catches |-> catches, fin |-> 0, pops |-> 0,
     ncatch |-> 0, cidx |-> 0, e |-> 0, ret |-> "", pval |-> 0]

NewAct == [sites |-> <<>>]

EvNone == [kind |-> "none", class |-> NULL, file |-> NULL, line |-> 0,
           val |-> 0, act |-> 0, sig |-> NoSignal, expr |-> NULL]
EvLost(c, f, l) == [EvNone EXCEPT !.kind = "lost", !.class = c, !.file = f,
                    !.line = l]
EvRet(a, v) == [EvNone EXCEPT !.kind = "ret", !.act = a, !.val = v]
EvAssert(f, l) == [EvNone EXCEPT !.kind = "assert", !.class = "FailedAssertion",
                   !.file = f, !.line = l]
EvRaise(c, n) == [EvNone EXCEPT !.kind = "raise", !.class = c, !.sig = n]
\* "Assertion failed: <expr>, file <f>, line <l>", "(no abort)" if
\* <doAbort> is 0
EvFailed(doAbort, expr, f, l) ==
    [EvNone EXCEPT !.kind = "failed", !.expr = expr, !.file = f, !.line = l,
                   !.val = doAbort]
\* a signal is handled by the disposition the application had installed
EvPrior(n) == [EvNone EXCEPT !.kind = "prior", !.sig = n]

UBOutcomes == {"crashed", "corrupt"}

----------------------------------------------------------------------------
(* Initial state: main() is running, no try has been executed *)

\* no propagation is followed: the depth <n> of the stack at the throw, the
\* frames <open> then with the scope of each, the ExceptFinally() calls
\* since, the finally blocks entered since, and how the propagation ended
Exn(f) == [class |-> f.class, pData |-> f.pData, file |-> f.file,
           line |-> f.line]
NoExn == [class |-> NULL, pData |-> NullData, file |-> NULL, line |-> 0]
NoUnwind == [n |-> 0, open |-> <<>>, steps |-> 0, fins |-> <<>>,
             end |-> "none", thrown |-> NoExn, clause |-> NULL,
             caught |-> NoExn]

InitEngine ==
    /\ exStack = <<>>
    /\ exAlloc = FALSE
    /\ pEx = 0
    /\ disp = "prior"
    /\ saved = "none"
    /\ cs = <<NewAct>>
    /\ pc = "user"
    /\ ck = 0
    /\ ev = EvNone
    /\ exited = {}
    /\ signalNumber = [c \in AllClasses |-> NoSignal]
    /\ unwind = NoUnwind
    /\ moves = 0

\* the builds: no EXCEPT_MT_ macro, EXCEPT_MT_PRIVATE, EXCEPT_MT_SHARED
Configs == {"single", "private", "shared"}
MULTI_THREADING == config # "single"
SHARE_HANDLERS == config = "shared"

Flows == {"A", "B"}

\* the disposition the application had installed for a signal, and the
\* translation handler
Prior == [n \in Signals |-> "prior"]
Translating == [n \in Signals |-> "ExceptThrowSignal"]
NoHandlers == [n \in Signals |-> "none"]

NewFlow == [ctx |-> FALSE, frames |-> 0, saved |-> NoHandlers,
            inHandler |-> NoSignal]

NotHandled == [flow |-> "none", sig |-> NoSignal, by |-> "none", frames |-> 0]

BridgeStart ==
    /\ numThreadsTry = 0
    /\ sharedHandler = NoHandlers
    /\ sigDisp = [f \in Flows |-> Prior]
    /\ flows = [f \in Flows |-> NewFlow]
    /\ handled = NotHandled

InitBridge == config = "single" /\ BridgeStart

\* the try statement that is audited, and the line of its catch clause k
AuditFile == "Test.c"
TryLine == 699
CatchLine(k) == TryLine + k

\* a flow outside the try statement; <list> is pC->pEx->checkList of the
\* frame it pushed (<made>: it is not NULL), <ready> that frame's ready flag
NotAuditing == [pos |-> "out", k |-> 0, made |-> FALSE, list |-> <<>>,
                ready |-> 0, runs |-> 0]

AuditStart ==
    /\ checked = 0
    /\ audit = [f \in Flows |-> NotAuditing]
    /\ diag = <<>>

InitAudit == aCatches = <<>> /\ AuditStart

\* Lifo: pObjects[0 .. size - 1] is <objs>[1 .. size], of which the model
\* keeps the elements the flow can reach and the one above them; an element
\* holds the number of a frame, or Junk as long as nothing was stored in it
Junk == 0
NoLifo == [made |-> FALSE, objs |-> [i \in 1..(MaxFrames + 1) |-> Junk],
           pointer |-> 0]

\* no flow, no context
NoFlow == "none"
NoContext == 0

\* a flow in user code outside any try statement
Idle == [ops |-> <<>>, pC |-> NoContext, tmp |-> 0, in |-> "outside",
         mine |-> NoContext, tries |-> 0, sig |-> NoSignal,
         keep |-> NoContext, hit |-> 0]

\* the build with threads before the first try statement: no frame store
\* and no ceased flow; the statics of ExceptMutex() are zero and the POSIX
\* mutex is not initialised; pContextHash is NULL and no context exists
InitCleanup ==
    /\ lifo = [f \in Flows |-> NoLifo]
    /\ heap = <<>>
    /\ ceased = {}
    /\ cleaned = [by |-> "none", of |-> "none", frames |-> {},
                  freed |-> <<>>, readFreed |-> FALSE, counted |-> 0,
                  outcome |-> "done"]
    /\ mx = [initialized |-> 0, ready |-> 0, count |-> 0, tid |-> NoFlow,
             owner |-> NoFlow, inits |-> 0, early |-> FALSE,
             blocked |-> FALSE]
    /\ thr = [f \in Flows |-> [at |-> "out", mode |-> 0, held |-> 0,
                               tmp |-> 0]]
    /\ store = [made |-> FALSE, of |-> [f \in Flows |-> NoContext]]
    /\ ctxs = <<>>
    /\ job = [f \in Flows |-> Idle]

InitDerived ==
    /\ dClass = "Throwable"
    /\ dBase = "Throwable"
    /\ dRes = "none"

Init == InitEngine /\ InitDerived /\ InitBridge /\ InitAudit /\ InitCleanup

----------------------------------------------------------------------------
(* The outcome of a routine or of a piece of macro code: the values the    *)
(* variables get.  <base> is the call stack before any nonlocal jump.      *)

Cur ==
    [ub |-> FALSE, stack |-> exStack, alloc |-> exAlloc, pex |-> pEx,
     disp |-> disp, saved |-> saved, base |-> cs, cs |-> cs, pc |-> "user",
     ck |-> 0, ev |-> EvNone, jumped |-> FALSE, signum |-> signalNumber,
     unwind |-> unwind, moves |-> moves]

\* undefined behaviour: a NULL or dangling pointer is used, or a jump is made
\* to a destination whose subroutine activation has ended
Undefined(r) == [r EXCEPT !.ub = TRUE]

CurA(r) == Len(r.cs)
CurS(r) == Len(r.cs[Len(r.cs)].sites)
CurSite(r) == r.cs[CurA(r)].sites[CurS(r)]

Inc(n) == IF n < 2 THEN n + 1 ELSE n

SetBlk(r, blk) ==
    [r EXCEPT !.cs[CurA(r)].sites[CurS(r)].blk = blk,
              !.cs[CurA(r)].sites[CurS(r)].cidx = 0,
              !.cs[CurA(r)].sites[CurS(r)].e = 0]

EnterFinallyBlock(r) ==
    [r EXCEPT !.cs[CurA(r)].sites[CurS(r)].blk = "finally",
              !.cs[CurA(r)].sites[CurS(r)].fin = Inc(@),
              !.cs[CurA(r)].sites[CurS(r)].cidx = 0,
              !.cs[CurA(r)].sites[CurS(r)].e = 0,
              !.pc = "user"]

\* ExceptGetContext(pC)->pEx->scope = FINALLY;
\* while (...->pEx->ready > 0 || ExceptFinally(pC))
\*     while (...->pEx->ready-- > 0) <user finally block>
FinallyMacro(r) ==
    IF r.cs = <<>> \/ r.pex = 0 THEN Undefined(r)
    ELSE LET top == r.stack[r.pex]
         IN  IF top.ready > 0
             THEN EnterFinallyBlock(
                    [r EXCEPT !.stack[r.pex].scope = "FINALLY",
                              !.stack[r.pex].ready = top.ready - 1])
             ELSE [SetBlk(r, "finally") EXCEPT
                              !.stack[r.pex].scope = "FINALLY",
                              !.pc = "resolve"]

\* the inner while condition after the user finally block, then the outer one
FinallyBlockEnd(r) ==
    IF r.pex = 0 THEN Undefined(r)
    ELSE LET top == r.stack[r.pex]
         IN  IF top.ready > 0
             THEN EnterFinallyBlock(
                    [r EXCEPT !.stack[r.pex].ready = top.ready - 1])
             ELSE [r EXCEPT !.stack[r.pex].ready = top.ready - 1,
                            !.pc = "resolve"]

\* if (!pC->pEx->ready && SETJMP(pC->pEx->finalBuf) == 0) pC->pEx->ready = 1;
\* else break;   reached when a try or catch block ends or no catch matched
AfterBlocks(r) ==
    IF r.pex = 0 THEN Undefined(r)
    ELSE LET top == r.stack[r.pex]
             here == Here(CurA(r), CurS(r))
         IN  IF top.ready = 0
             THEN [SetBlk(r, "try") EXCEPT
                      !.stack[r.pex] = [top EXCEPT !.ready = 1, !.fb = here,
                                            !.tb = here, !.scope = "TRY"],
                      !.pc = "user"]
             ELSE FinallyMacro(r)

\* the call stack after a jump to destination <t>
CutTo(csx, t) ==
    [i \in 1..t.a |->
        IF i = t.a THEN [csx[i] EXCEPT !.sites = SubSeq(@, 1, t.s)]
        ELSE csx[i]]

Live(csx, t) ==
    /\ t.a >= 1 /\ t.a <= Len(csx)
    /\ t.s >= 1 /\ t.s <= Len(csx[t.a].sites)

\* LONGJMP(pC->pEx->throwBuf, 1): the catch clauses are evaluated in order
JumpThrowBuf(r, t) ==
    IF ~Live(r.cs, t) THEN Undefined(r)
    ELSE [r EXCEPT !.cs = CutTo(r.cs, t), !.pc = "catch", !.ck = 1,
                   !.jumped = TRUE]

\* LONGJMP(pC->pEx->finalBuf, 1): the while (1) loop is left by its break
JumpFinalBuf(r, t) ==
    IF ~Live(r.cs, t) THEN Undefined(r)
    ELSE FinallyMacro([r EXCEPT !.cs = CutTo(r.cs, t), !.jumped = TRUE])

\* LONGJMP(*(JMP_BUF *)ex.pData, 1): the return() macro frees the buffer
\* and executes the native return
JumpReturnBuf(r, j) ==
    IF j.k # "jmp" \/ j.act < 1 \/ j.act > Len(r.cs) THEN Undefined(r)
    ELSE [r EXCEPT !.cs = SubSeq(r.cs, 1, j.act - 1),
                   !.pc = IF j.act = 1 THEN "exit" ELSE "user",
                   !.ev = EvRet(j.act, j.val),
                   !.jumped = TRUE]

ClassObj(c) == [notRethrown |-> 1, name |-> c]
ExceptObj   == [notRethrown |-> 0, name |-> NULL]

\* faulty variant: a rethrow stores the data it is given
ExceptThrowReplacingData(r, obj, pData, file, line) ==
    IF obj.notRethrown = 1 /\ obj.name = NULL THEN Undefined(r)
    ELSE IF ~r.alloc \/ Len(r.stack) = 0
    THEN [r EXCEPT !.ev = EvLost(obj.name, file, line)]
    ELSE
        LET top == r.stack[r.pex]
            t1  == IF obj.notRethrown = 1
                   THEN [top EXCEPT !.class = obj.name, !.pData = pData,
                                    !.file = file, !.line = line,
                                    !.rd = "", !.prop = FALSE]
                   ELSE [top EXCEPT !.pData = pData, !.rd = pData.d]
            t2  == [t1 EXCEPT !.state = "PENDING"]
            r1  == [r EXCEPT !.stack[r.pex] = t2]
        IN  CASE t2.scope = "TRY" -> JumpThrowBuf(r1, t2.tb)
              [] t2.scope \in {"CATCH", "FINALLY"} -> JumpFinalBuf(r1, t2.fb)
              [] OTHER -> r1

\* faulty variant: a rethrow records the file and line of the rethrow statement
ExceptThrowRecordingSite(r, obj, pData, file, line) ==
    IF obj.notRethrown = 1 /\ obj.name = NULL THEN Undefined(r)
    ELSE IF ~r.alloc \/ Len(r.stack) = 0
    THEN [r EXCEPT !.ev = EvLost(obj.name, file, line)]
    ELSE
        LET top == r.stack[r.pex]
            t1  == IF obj.notRethrown = 1
                   THEN [top EXCEPT !.class = obj.name, !.pData = pData,
                                    !.file = file, !.line = line,
                                    !.rd = "", !.prop = FALSE]
                   ELSE [top EXCEPT !.file = file, !.line = line,
                                    !.rd = pData.d]
            t2  == [t1 EXCEPT !.state = "PENDING"]
            r1  == [r EXCEPT !.stack[r.pex] = t2]
        IN  CASE t2.scope = "TRY" -> JumpThrowBuf(r1, t2.tb)
              [] t2.scope \in {"CATCH", "FINALLY"} -> JumpFinalBuf(r1, t2.fb)
              [] OTHER -> r1

\* faulty variant: a throw outside any try statement prepares the context
ExceptThrowLostInstalls(r, obj, pData, file, line) ==
    IF obj.notRethrown = 1 /\ obj.name = NULL THEN Undefined(r)
    ELSE IF ~r.alloc \/ Len(r.stack) = 0
    THEN [r EXCEPT !.ev = EvLost(obj.name, file, line), !.alloc = TRUE,
                   !.saved = r.disp, !.disp = "ExceptThrowSignal"]
    ELSE
        LET top == r.stack[r.pex]
            t1  == IF obj.notRethrown = 1
                   THEN [top EXCEPT !.class = obj.name, !.pData = pData,
                                    !.file = file, !.line = line,
                                    !.rd = "", !.prop = FALSE]
                   ELSE [top EXCEPT !.rd = pData.d]
            t2  == [t1 EXCEPT !.state = "PENDING"]
            r1  == [r EXCEPT !.stack[r.pex] = t2]
        IN  CASE t2.scope = "TRY" -> JumpThrowBuf(r1, t2.tb)
              [] t2.scope \in {"CATCH", "FINALLY"} -> JumpFinalBuf(r1, t2.fb)
              [] OTHER -> r1

ExceptThrow(r, obj, pData, file, line) ==
    IF obj.notRethrown = 1 /\ obj.name = NULL THEN Undefined(r)
    ELSE IF ~r.alloc \/ Len(r.stack) = 0
    THEN [r EXCEPT !.ev = EvLost(obj.name, file, line)]
    ELSE
        LET top == r.stack[r.pex]
            t1  == IF obj.notRethrown = 1
                   THEN [top EXCEPT !.class = obj.name, !.pData = pData,
                                    !.file = file, !.line = line,
                                    !.rd = "", !.prop = FALSE]
                   ELSE [top EXCEPT !.rd = pData.d]
            t2  == [t1 EXCEPT !.state = "PENDING"]
            r1  == [r EXCEPT !.stack[r.pex] = t2]
        IN  CASE t2.scope = "TRY" -> JumpThrowBuf(r1, t2.tb)
              [] t2.scope \in {"CATCH", "FINALLY"} -> JumpFinalBuf(r1, t2.fb)
              [] OTHER -> r1

\* the signal handler: signal(number, ExceptThrowSignal);
\* class->signalNumber = number; ExceptThrow(NULL, class, NULL, "?", 0)
ExceptThrowSignal(r, number) ==
    LET class == SignalClass[number]
        r1 == [r EXCEPT !.disp = "ExceptThrowSignal",
                        !.signum[class] = number]
    IN  ExceptThrow(r1, ClassObj(class), NullData, "?", 0)

\* a trap signal is delivered: the disposition in place handles it
Deliver(r, number) ==
    IF r.disp = "ExceptThrowSignal"
    THEN ExceptThrowSignal(r, number)
    ELSE [r EXCEPT !.pc = "killed", !.ev = EvPrior(number)]

ExceptGetScope(r) ==
    IF r.pex = 0 THEN "OUTSIDE" ELSE r.stack[Len(r.stack)].scope

\* the pending macro: ExceptGetContext(pC)->pEx->state == PENDING
pending(r) == r.stack[r.pex].state = "PENDING"

AssertAction(r, doAbort, expr, file, line) ==
    IF ExceptGetScope(r) \in {"TRY", "CATCH", "FINALLY"}
    THEN ExceptThrow(r, ClassObj("FailedAssertion"), UserData(expr), file,
                     line)
    ELSE [r EXCEPT !.ev = EvFailed(doAbort, expr, file, line),
                   !.pc = IF doAbort = 1 THEN "killed" ELSE @]

ExceptReturn(r) ==
    LET top == r.stack[r.pex]
        t1  == [top EXCEPT !.class = "ReturnEvent", !.state = "PENDING"]
    IN  JumpFinalBuf([r EXCEPT !.stack[r.pex] = t1], t1.fb)

\* faulty variant: a pending exception matches whatever the class of the clause
ExceptCatchAnyClass(r, class) ==
    LET top == r.stack[r.pex]
    IN  IF top.state = "PENDING"
        THEN [r EXCEPT !.stack[r.pex].state = "CAUGHT"]
        ELSE r

\* faulty variant: a pending exception matches a clause of its own class only
ExceptCatchSameClass(r, class) ==
    LET top == r.stack[r.pex]
    IN  IF top.state = "PENDING" /\ top.class = class
        THEN [r EXCEPT !.stack[r.pex].state = "CAUGHT"]
        ELSE r

ExceptCatch(r, class) ==
    LET top == r.stack[r.pex]
    IN  IF top.state = "PENDING" /\ ExceptIsDerived(top.class, class)
        THEN [r EXCEPT !.stack[r.pex].state = "CAUGHT"]
        ELSE r

\* the value ExceptCatch() returns: return pC->pEx->state == CAUGHT;
ExceptCatchValue(r, class) ==
    ExceptCatch(r, class).stack[r.pex].state = "CAUGHT"

\* the statement after the try ... finally statement is reached
Done(r) ==
    [r EXCEPT !.cs[CurA(r)].sites = SubSeq(@, 1, Len(@) - 1), !.pc = "user"]

ExceptInstallHandlers(r) ==
    IF ~r.alloc
    THEN [r EXCEPT !.alloc = TRUE, !.saved = r.disp,
                   !.disp = "ExceptThrowSignal"]
    ELSE r

\* faulty variant: the handlers stay as they are
ExceptRestoreHandlersKeeps(r) == r

ExceptRestoreHandlers(r) == [r EXCEPT !.disp = r.saved]

\* faulty variant: the frame is pushed and pC->pEx stays what it was
ExceptTryStaleTop(r, first) ==
    LET r1  == ExceptInstallHandlers(r)
        own == Here(CurA(r), CurS(r) + 1)
    IN  [r1 EXCEPT !.stack = Append(r1.stack, NewFrame(first, own))]

ExceptTry(r, first) ==
    LET r1  == ExceptInstallHandlers(r)
        own == Here(CurA(r), CurS(r) + 1)
    IN  [r1 EXCEPT !.stack = Append(r1.stack, NewFrame(first, own)),
                   !.pex = Len(r1.stack) + 1]

\* first = (pC == NULL): no block of a try statement of this subroutine that
\* declares a local pC (the try and catch blocks do) encloses the statement
LexicalFirst(sites) ==
    \A i \in 1..Len(sites) : sites[i].blk = "finally"

\* the try macro: ExceptTry(), then the pass that records finalBuf and the
\* pass that records throwBuf and enters the try block
TryMacro(r, catches) ==
    LET sites == r.cs[CurA(r)].sites
        r1    == ExceptTry(r, LexicalFirst(sites))
        here  == Here(CurA(r), Len(sites) + 1)
    IN  [r1 EXCEPT !.stack[r1.pex].ready = 1,
                   !.stack[r1.pex].fb = here,
                   !.stack[r1.pex].tb = here,
                   !.stack[r1.pex].scope = "TRY",
                   !.cs[CurA(r)].sites = Append(sites, NewSite(catches))]

\* return x; of the return() macro
NativeReturn(r, v) ==
    [r EXCEPT !.cs = SubSeq(r.cs, 1, Len(r.cs) - 1),
              !.pc = IF Len(r.cs) = 1 THEN "exit" ELSE "user",
              !.ev = EvRet(Len(r.cs), v)]

\* the value of the return event a frame holds, 0 if it holds none
HeldReturn(ex) ==
    IF ex.state = "PENDING" /\ ex.class = "ReturnEvent" /\ ex.pData.k = "jmp"
    THEN ex.pData.val ELSE 0

\* the block of the try statement in which its latest return() was executed;
\* a return() in the finally block that replaces the pending return event of
\* a return() of the try block or of a catch block is marked as such
RetMark(old, r) ==
    LET blk  == CurSite(r).blk
        held == IF r.pex = 0 THEN 0 ELSE HeldReturn(r.stack[r.pex])
    IN  IF blk = "finally" /\ held = ReturnValueIn(CurS(r), "try")
        THEN "finally after try"
        ELSE IF blk = "finally" /\ held = ReturnValueIn(CurS(r), "catch")
        THEN "finally after catch"
        ELSE blk

ReturnMacro(r, v) ==
    LET r0 == IF r.cs[CurA(r)].sites = <<>> THEN r
              ELSE [r EXCEPT !.cs[CurA(r)].sites[CurS(r)].ret = RetMark(@, r),
                             !.base[CurA(r)].sites[CurS(r)].ret =
                                 RetMark(@, r)]
    IN  IF ExceptGetScope(r0) # "OUTSIDE"
        THEN ExceptReturn(
               [r0 EXCEPT !.stack[r0.pex].pData = JmpBuf(CurA(r0), v)])
        ELSE NativeReturn(r0, v)

\* faulty variant: the exception is passed on without its data, file and line
PropagateClassOnly(r, ex) ==
    LET r2 == ExceptThrow(r, ClassObj(ex.class), NullData, NULL, 0)
    IN  IF r2.ub THEN r2
        ELSE [r2 EXCEPT !.stack[r.pex].rd = ex.rd, !.stack[r.pex].prop = TRUE]

\* ExceptThrow(pC, ex.class, ex.pData, ex.file, ex.line) of the inner level
Propagate(r, ex) ==
    LET r2 == ExceptThrow(r, ClassObj(ex.class), ex.pData, ex.file, ex.line)
    IN  IF r2.ub THEN r2
        ELSE [r2 EXCEPT !.stack[r.pex].rd = ex.rd, !.stack[r.pex].prop = TRUE]

\* raise(ex.class->signalNumber) and the second LifoDestroy(pC->exStack)
\* that follows if raise() returns
Raise(r, class, n) ==
    IF n # NoSignal /\ r.disp = "prior"
    THEN [r EXCEPT !.pc = "killed", !.ev = EvRaise(class, n)]
    ELSE Undefined(r)

ExceptFinally(r) ==
    IF ~r.alloc \/ Len(r.stack) = 0 THEN Undefined(r)
    ELSE
    LET n   == Len(r.stack)
        ex  == r.stack[n]
        cs1 == IF Live(r.cs, ex.own)
               THEN [r.cs EXCEPT ![ex.own.a].sites[ex.own.s].pops = Inc(@),
                                 ![ex.own.a].sites[ex.own.s].pval =
                                     HeldReturn(ex)]
               ELSE r.cs
        r1  == [r EXCEPT !.stack = SubSeq(r.stack, 1, n - 1), !.pex = n - 1,
                         !.cs = cs1, !.base = cs1]
    IN  IF n - 1 = 0
        THEN \* outermost level - default action
            LET r2 == ExceptRestoreHandlers(r1)
                destroyed == [r2 EXCEPT !.alloc = FALSE]
            IN  IF ex.state # "PENDING" THEN Done(destroyed)
                ELSE IF ex.class = NULL THEN Undefined(r2)
                ELSE IF ex.class = "FailedAssertion"
                    THEN Done([destroyed EXCEPT
                                 !.ev = EvAssert(ex.file, ex.line)])
                ELSE IF ExceptIsDerived(ex.class, "RuntimeException")
                    THEN Raise(destroyed, ex.class, r.signum[ex.class])
                ELSE IF ex.class = "ReturnEvent"
                    THEN JumpReturnBuf(destroyed, ex.pData)
                ELSE Done([destroyed EXCEPT
                             !.ev = EvLost(ex.class, ex.file, ex.line)])
        ELSE \* inner level - propagate
            IF ex.state # "PENDING" THEN Done(r1)
            ELSE IF ex.class = "ReturnEvent" /\ ex.first
                THEN JumpReturnBuf(r1, ex.pData)
            ELSE LET r2 == Propagate(r1, ex)
                 IN  IF r2.ub \/ r2.jumped THEN r2 ELSE Done(r2)

----------------------------------------------------------------------------
(* Ghost bookkeeping *)

Dead(t, new) ==
    \/ t.a > Len(new)
    \/ t.a >= 1 /\ t.s > Len(new[t.a].sites)

\* jump destinations recorded in a subroutine activation or try statement
\* that has ended are invalid from then on
Sweep(stack, new) ==
    [i \in 1..Len(stack) |->
        LET f == stack[i]
        IN  [f EXCEPT !.tb  = IF Dead(@, new) THEN Stale ELSE @,
                      !.fb  = IF Dead(@, new) THEN Stale ELSE @,
                      !.own = IF Dead(@, new) THEN Stale ELSE @,
                      !.pData = IF @.k = "jmp" /\ @.act > Len(new)
                                THEN StaleJmp(@.val) ELSE @]]

Removed(base, new) ==
    { [a |-> q[1], s |-> q[2],
       fin |-> base[q[1]].sites[q[2]].fin,
       pops |-> base[q[1]].sites[q[2]].pops,
       ncatch |-> base[q[1]].sites[q[2]].ncatch,
       ret |-> base[q[1]].sites[q[2]].ret,
       pval |-> base[q[1]].sites[q[2]].pval] :
        q \in { p \in UNION { { <<a, i>> : i \in 1..Len(base[a].sites) } :
                              a \in 1..Len(base) } :
                  p[1] > Len(new) \/ p[2] > Len(new[p[1]].sites) } }

Apply(r) ==
    IF r.ub
    THEN /\ pc' \in UBOutcomes
         /\ ev' = EvNone
         /\ exited' = {}
         /\ exStack' = <<>>
         /\ exAlloc' = FALSE
         /\ pEx' = 0
         /\ cs' = <<>>
         /\ ck' = 0
         /\ unwind' = r.unwind
         /\ moves' = r.moves
         /\ UNCHANGED <<disp, saved, signalNumber>>
    ELSE /\ exStack' = Sweep(r.stack, r.cs)
         /\ exAlloc' = r.alloc
         /\ pEx' = r.pex
         /\ disp' = r.disp
         /\ saved' = r.saved
         /\ cs' = r.cs
         /\ pc' = r.pc
         /\ ck' = IF r.pc = "catch" THEN r.ck ELSE 0
         /\ ev' = r.ev
         /\ exited' = Removed(r.base, r.cs)
         /\ signalNumber' = r.signum
         /\ unwind' = r.unwind
         /\ moves' = r.moves

----------------------------------------------------------------------------
(* The steps of the flow *)

InUser == pc = "user" /\ cs # <<>>

\* the block of the innermost try statement the flow is in, "none" outside
CurBlk ==
    IF cs[Len(cs)].sites = <<>> THEN "none" ELSE CurSite(Cur).blk

Try(catches) ==
    /\ InUser
    /\ Len(exStack) < MaxDepth
    /\ Apply(TryMacro(Cur, catches))
    /\ UNCHANGED <<derivedVars, bridgeVars, auxVars>>

Throw(t) ==
    /\ InUser
    /\ Apply(ExceptThrow(Cur, ClassObj(t.class), UserData(t.data), ThrowFile,
                         t.line))
    /\ UNCHANGED <<derivedVars, bridgeVars, auxVars>>

\* throw(e, data) where e is the variable of the innermost enclosing catch
Rethrow ==
    /\ InUser
    /\ \E i \in 1..Len(cs[Len(cs)].sites) : cs[Len(cs)].sites[i].blk = "catch"
    /\ Apply(ExceptThrow(Cur, ExceptObj, UserData(RethrowData), RethrowFile,
                         RethrowLine))
    /\ UNCHANGED <<derivedVars, bridgeVars, auxVars>>

Return ==
    /\ InUser
    /\ Apply(ReturnMacro(Cur, ReturnValueIn(CurS(Cur), CurBlk)))
    /\ UNCHANGED <<derivedVars, bridgeVars, auxVars>>

Call ==
    /\ InUser
    /\ Len(cs) < MaxCalls
    /\ Apply([Cur EXCEPT !.cs = Append(cs, NewAct)])
    /\ UNCHANGED <<derivedVars, bridgeVars, auxVars>>

\* the subroutine reaches its end outside any of its try statements
FuncEnd ==
    /\ InUser
    /\ Len(cs) > 1
    /\ cs[Len(cs)].sites = <<>>
    /\ Apply(NativeReturn(Cur, 0))
    /\ UNCHANGED <<derivedVars, bridgeVars, auxVars>>

BlockEnd ==
    /\ InUser
    /\ cs[Len(cs)].sites # <<>>
    /\ Apply(IF CurSite(Cur).blk = "finally" THEN FinallyBlockEnd(Cur)
             ELSE AfterBlocks(Cur))
    /\ UNCHANGED <<derivedVars, bridgeVars, auxVars>>

\* else if (... pC->pEx->ready && ExceptCatch(pC, class)) of the next clause
CatchMacro(r, k) ==
    LET site == CurSite(r)
    IN  IF k > Len(site.catches) THEN AfterBlocks(r)
        ELSE IF r.pex = 0 THEN Undefined(r)
        ELSE IF r.stack[r.pex].ready = 0
            THEN [r EXCEPT !.pc = "catch", !.ck = k + 1]
        ELSE IF r.stack[r.pex].state = "PENDING"
                /\ r.stack[r.pex].class = NULL THEN Undefined(r)
        ELSE LET r1 == ExceptCatch(r, site.catches[k])
             IN  IF r1.stack[r1.pex].state = "CAUGHT"
                 THEN [r1 EXCEPT
                         !.stack[r1.pex].scope = "CATCH",
                         !.cs[CurA(r)].sites[CurS(r)] =
                             [site EXCEPT !.blk = "catch",
                                          !.ncatch = Inc(@),
                                          !.cidx = k,
                                          !.e = Len(r1.stack)],
                         !.pc = "user"]
                 ELSE [r1 EXCEPT !.pc = "catch", !.ck = k + 1]

CatchClause ==
    /\ pc = "catch"
    /\ Apply(CatchMacro(Cur, ck))
    /\ UNCHANGED <<derivedVars, bridgeVars, auxVars>>

Finally ==
    /\ pc = "resolve"
    /\ Apply(ExceptFinally(Cur))
    /\ UNCHANGED <<derivedVars, bridgeVars, auxVars>>

Next ==
    \/ \E catches \in CatchLists : Try(catches)
    \/ \E t \in ThrowStmts : Throw(t)
    \/ Rethrow
    \/ Return
    \/ Call
    \/ FuncEnd
    \/ BlockEnd
    \/ CatchClause
    \/ Finally

Spec == Init /\ [][Next]_vars

----------------------------------------------------------------------------
(* Programs that use try ... finally and return() only, nested deeper *)

TryFinally ==
    /\ InUser
    /\ Len(exStack) < MaxNest
    /\ Apply(TryMacro(Cur, <<>>))
    /\ UNCHANGED <<derivedVars, bridgeVars, auxVars>>

NextReturn ==
    \/ TryFinally
    \/ Return
    \/ Call
    \/ FuncEnd
    \/ BlockEnd
    \/ CatchClause
    \/ Finally

SpecReturn == Init /\ [][NextReturn]_vars

----------------------------------------------------------------------------
(* Programs in which trap signals are delivered *)

\* the catch clauses of the signal tests and the signal that is delivered
SignalCatchLists == {<<>>, <<"SegmentationFault", "RuntimeException">>}
DeliveredSignals == {"SIGSEGV"}

TrySignal(catches) ==
    /\ InUser
    /\ Len(exStack) < MaxTrap
    /\ Apply(TryMacro(Cur, catches))
    /\ UNCHANGED <<derivedVars, bridgeVars, auxVars>>

Signal(number) ==
    /\ InUser
    /\ Apply(Deliver(Cur, number))
    /\ UNCHANGED <<derivedVars, bridgeVars, auxVars>>

NextSignal ==
    \/ \E catches \in SignalCatchLists : TrySignal(catches)
    \/ \E number \in DeliveredSignals : Signal(number)
    \/ Return
    \/ Call
    \/ FuncEnd
    \/ BlockEnd
    \/ CatchClause
    \/ Finally

SpecSignal == Init /\ [][NextSignal]_vars

----------------------------------------------------------------------------
(* Programs that throw, catch and return, nested deeper *)

ThrowCatchLists == {<<>>, <<"Level1Exception", "Exception">>}
DeepThrowStmts == { t \in ThrowStmts : t.class = "Level1Exception" }

TryCatch(catches) ==
    /\ InUser
    /\ Len(exStack) < MaxTrap
    /\ Apply(TryMacro(Cur, catches))
    /\ UNCHANGED <<derivedVars, bridgeVars, auxVars>>

NextThrow ==
    \/ \E catches \in ThrowCatchLists : TryCatch(catches)
    \/ \E t \in DeepThrowStmts : Throw(t)
    \/ Return
    \/ Call
    \/ FuncEnd
    \/ BlockEnd
    \/ CatchClause
    \/ Finally

SpecThrow == Init /\ [][NextThrow]_vars

----------------------------------------------------------------------------
(* Programs with assertions that fail; ASSERT_ABORT is defined in some     *)
(* source files and not in others                                          *)

\* the outermost try statement may catch the assertion, those nested in it
\* or executed by the subroutines it calls have no catch clause
AssertCatchLists == {<<>>, <<"FailedAssertion">>}

TryAssert(catches) ==
    /\ InUser
    /\ Len(exStack) < MaxTrap
    /\ catches # <<>> => exStack = <<>>
    /\ Apply(TryMacro(Cur, catches))
    /\ UNCHANGED <<derivedVars, bridgeVars, auxVars>>

\* assert(0) of the DEBUG build
AssertStmt(doAbort) ==
    /\ InUser
    /\ Apply(AssertAction(Cur, doAbort, AssertExpr, AssertFile,
                          AssertLineIn(CurBlk)))
    /\ UNCHANGED <<derivedVars, bridgeVars, auxVars>>

NextAssert ==
    \/ \E catches \in AssertCatchLists : TryAssert(catches)
    \/ \E doAbort \in {0, 1} : AssertStmt(doAbort)
    \/ Return
    \/ Call
    \/ FuncEnd
    \/ BlockEnd
    \/ CatchClause
    \/ Finally

SpecAssert == Init /\ [][NextAssert]_vars

----------------------------------------------------------------------------
(* Programs that throw the classes of the trap signals themselves, and     *)
(* applications that have a signal handler of their own, which returns     *)

RaiseThrowStmts ==
    {[class |-> "RuntimeException", data |-> "Hello", line |-> 574],
     [class |-> "SegmentationFault", data |-> "World", line |-> 557]}
RaiseCatchLists == {<<>>, <<"SegmentationFault">>}

TryRaise(catches) ==
    /\ InUser
    /\ Len(exStack) < MaxDepth
    /\ Apply(TryMacro(Cur, catches))
    /\ UNCHANGED <<derivedVars, bridgeVars, auxVars>>

\* signal(number, handler) of the application, before its first try
\* statement: the handler returns
OwnHandler ==
    /\ InUser
    /\ ~exAlloc
    /\ disp = "prior"
    /\ Apply([Cur EXCEPT !.disp = "handler"])
    /\ UNCHANGED <<derivedVars, bridgeVars, auxVars>>

\* a trap in a try statement, where ExceptThrowSignal() is the handler
Trap(number) ==
    /\ InUser
    /\ disp = "ExceptThrowSignal"
    /\ Apply(Deliver(Cur, number))
    /\ UNCHANGED <<derivedVars, bridgeVars, auxVars>>

NextRaise ==
    \/ \E catches \in RaiseCatchLists : TryRaise(catches)
    \/ \E t \in RaiseThrowStmts : Throw(t)
    \/ \E number \in DeliveredSignals : Trap(number)
    \/ OwnHandler
    \/ BlockEnd
    \/ CatchClause
    \/ Finally

SpecRaise == Init /\ [][NextRaise]_vars

----------------------------------------------------------------------------
(* The signal handlers of several flows: every flow is reduced to its      *)
(* context, the number of its frames and the handler it is executing       *)

\* signal(number, handler): for the calling flow where every flow has its
\* own handlers, for the process otherwise
SignalSet(d, f, h) ==
    IF MULTI_THREADING /\ ~SHARE_HANDLERS
    THEN [d EXCEPT ![f] = [n \in Signals |->
                              IF h[n] = "keep" THEN d[f][n] ELSE h[n]]]
    ELSE [g \in Flows |-> [n \in Signals |->
                              IF h[n] = "keep" THEN d[g][n] ELSE h[n]]]

Only(number, h) == [n \in Signals |-> IF n = number THEN h ELSE "keep"]

\* ExceptInstallHandlers() of flow <f>, whose pC->exStack is NULL
InstallHandlers(f) ==
    IF MULTI_THREADING /\ SHARE_HANDLERS
    THEN /\ numThreadsTry' = numThreadsTry + 1
         /\ IF numThreadsTry = 0
            THEN /\ sharedHandler' = sigDisp[f]
                 /\ sigDisp' = SignalSet(sigDisp, f, Translating)
            ELSE UNCHANGED <<sharedHandler, sigDisp>>
         /\ flows' = [flows EXCEPT ![f].ctx = TRUE, ![f].frames = 1]
    ELSE /\ sigDisp' = SignalSet(sigDisp, f, Translating)
         /\ flows' = [flows EXCEPT ![f].ctx = TRUE, ![f].frames = 1,
                                   ![f].saved = sigDisp[f]]
         /\ UNCHANGED <<numThreadsTry, sharedHandler>>

\* ExceptRestoreHandlers() of flow <f>, then the context is destroyed
RestoreHandlers(f) ==
    IF MULTI_THREADING /\ SHARE_HANDLERS
    THEN /\ numThreadsTry' = numThreadsTry - 1
         /\ sigDisp' = IF numThreadsTry - 1 = 0
                       THEN SignalSet(sigDisp, f, sharedHandler)
                       ELSE sigDisp
         /\ flows' = [flows EXCEPT ![f] = NewFlow]
         /\ UNCHANGED sharedHandler
    ELSE /\ sigDisp' = SignalSet(sigDisp, f, flows[f].saved)
         /\ flows' = [flows EXCEPT ![f] = NewFlow]
         /\ UNCHANGED <<numThreadsTry, sharedHandler>>

\* a flow that is not executing the signal handler; only flow A exists in
\* the build without threads
Runs(f) ==
    /\ flows[f].inHandler = NoSignal
    /\ MULTI_THREADING \/ f = "A"

\* ExceptTry() of flow <f>
FlowTry(f) ==
    /\ Runs(f)
    /\ flows[f].frames < MaxFrames
    /\ IF ~flows[f].ctx THEN InstallHandlers(f)
       ELSE /\ flows' = [flows EXCEPT ![f].frames = @ + 1]
            /\ UNCHANGED <<numThreadsTry, sharedHandler, sigDisp>>
    /\ UNCHANGED <<config, handled, engineVars, derivedVars, auxVars>>

\* ExceptFinally() of flow <f> with nothing pending
FlowFinally(f) ==
    /\ Runs(f)
    /\ flows[f].frames > 0
    /\ IF flows[f].frames = 1 THEN RestoreHandlers(f)
       ELSE /\ flows' = [flows EXCEPT ![f].frames = @ - 1]
            /\ UNCHANGED <<numThreadsTry, sharedHandler, sigDisp>>
    /\ UNCHANGED <<config, handled, engineVars, derivedVars, auxVars>>

\* a trap signal is delivered to flow <f>: the disposition in place is
\* called; ExceptThrowSignal() starts
FlowSignal(f, number) ==
    /\ Runs(f)
    /\ handled' = [flow |-> f, sig |-> number, by |-> sigDisp[f][number],
                   frames |-> flows[f].frames]
    /\ flows' = IF sigDisp[f][number] = "ExceptThrowSignal"
                THEN [flows EXCEPT ![f].inHandler = number]
                ELSE flows
    /\ UNCHANGED <<config, numThreadsTry, sharedHandler, sigDisp,
                   engineVars, derivedVars, auxVars>>

\* signal(number, ExceptThrowSignal) of ExceptThrowSignal(), then its
\* ExceptThrow(), which returns (lost) or jumps into the flow's try statement
FlowHandler(f) ==
    /\ flows[f].inHandler # NoSignal
    /\ sigDisp' = SignalSet(sigDisp, f,
                            Only(flows[f].inHandler, "ExceptThrowSignal"))
    /\ flows' = [flows EXCEPT ![f].inHandler = NoSignal]
    /\ UNCHANGED <<config, numThreadsTry, sharedHandler, handled,
                   engineVars, derivedVars, auxVars>>

InitBridgeAll ==
    /\ InitEngine
    /\ InitDerived
    /\ InitAudit
    /\ InitCleanup
    /\ config \in Configs
    /\ BridgeStart

NextBridge ==
    \/ \E f \in Flows : FlowTry(f)
    \/ \E f \in Flows : FlowFinally(f)
    \/ \E f \in Flows, number \in Signals : FlowSignal(f, number)
    \/ \E f \in Flows : FlowHandler(f)

SpecBridge == InitBridgeAll /\ [][NextBridge]_vars

----------------------------------------------------------------------------
(* The DEBUG build: the catch clauses of a try statement are audited by    *)
(* the flows that execute it.  Every step is one call of the macro code;   *)
(* ExceptCheckBegin() takes two where it reads <checked> and then acts on  *)
(* what it read, there being no lock around the two.                       *)

\* the classes the audited catch clauses name
AuditClasses == {"Throwable", "Exception", "FailedAssertion",
                 "SegmentationFault"}

RECURSIVE SeqsUpTo(_, _)
SeqsUpTo(S, n) ==
    IF n = 0 THEN {<<>>}
    ELSE LET shorter == SeqsUpTo(S, n - 1)
         IN  shorter \cup { Append(q, c) : q \in shorter, c \in S }

CatchSeqs == SeqsUpTo(AuditClasses, MaxCatches)

\* the messages
NoCatchWarning(file, line) ==
    [kind |-> "No catch clause(s)", class |-> NULL, file |-> file,
     line |-> line, by |-> NULL, at |-> 0]
DuplicateCatch(class, file, line, at) ==
    [kind |-> "Duplicate catch", class |-> class, file |-> file,
     line |-> line, by |-> class, at |-> at]
SuperfluousCatch(class, file, line, by, at) ==
    [kind |-> "Superfluous catch", class |-> class, file |-> file,
     line |-> line, by |-> by, at |-> at]

\* a flow of the build
FlowExists(f) == MULTI_THREADING \/ f = "A"

\* ExceptTry() has pushed a fresh frame; the while (1) block is entered
AuditTry(f) ==
    /\ FlowExists(f)
    /\ audit[f].pos = "out"
    /\ audit[f].runs < MaxRuns
    /\ audit' = [audit EXCEPT ![f].pos = "begin", ![f].k = 0,
                              ![f].made = FALSE, ![f].list = <<>>,
                              ![f].ready = 0,
                              ![f].runs = @ + 1]
    /\ UNCHANGED <<aCatches, checked, diag>>
    /\ UNCHANGED <<engineVars, derivedVars, bridgeVars, cleanupVars,
                   mutexVars, storeVars>>

\* where the macro code goes when CHECK_BEGIN has returned <ret>
AfterCheckBegin(a, ret) ==
    IF ret = 1 /\ a.ready = 1 THEN [a EXCEPT !.pos = "body"]
    ELSE IF aCatches = <<>> THEN [a EXCEPT !.pos = "end"]
    ELSE [a EXCEPT !.pos = "check", !.k = 1]

\* ExceptCheckBegin() up to its reading of *pChecked
ExceptCheckBegin(f) ==
    /\ audit[f].pos = "begin"
    /\ LET a == audit[f]
       IN  IF ~a.made /\ checked = 0
           THEN audit' = [audit EXCEPT ![f] =
                            AfterCheckBegin([a EXCEPT !.made = TRUE], checked)]
           ELSE IF checked = 0
           THEN audit' = [audit EXCEPT ![f].pos = "final test"]
           ELSE audit' = [audit EXCEPT ![f] = AfterCheckBegin(a, checked)]
    /\ UNCHANGED <<aCatches, checked, diag>>
    /\ UNCHANGED <<engineVars, derivedVars, bridgeVars, cleanupVars,
                   mutexVars, storeVars>>

\* ExceptCheckBegin() from there on: the final test, the list is destroyed
ExceptCheckBeginFinal(f) ==
    /\ audit[f].pos = "final test"
    /\ diag' = IF Len(audit[f].list) = 0
               THEN Append(diag, NoCatchWarning(AuditFile, TryLine))
               ELSE diag
    /\ checked' = 1
    /\ audit' = [audit EXCEPT ![f] =
                    AfterCheckBegin([audit[f] EXCEPT !.made = FALSE,
                                                     !.list = <<>>], 1)]
    /\ UNCHANGED aCatches
    /\ UNCHANGED <<engineVars, derivedVars, bridgeVars, cleanupVars,
                   mutexVars, storeVars>>

\* faulty variant: only an element of the same class is found
FirstEqual(class, list) ==
    LET m == { i \in 1..Len(list) : class = list[i].class }
    IN  IF m = {} THEN 0 ELSE CHOOSE i \in m : \A j \in m : i <= j

\* the first element of <list> that is <class> or an ancestor of it, 0 if
\* there is none
FirstCovering(class, list) ==
    LET m == { i \in 1..Len(list) : ExceptIsDerived(class, list[i].class) }
    IN  IF m = {} THEN 0 ELSE CHOOSE i \in m : \A j \in m : i <= j

\* ExceptCheck() of catch clause <k> and the clause of the macro around it
ExceptCheck(f) ==
    /\ audit[f].pos = "check"
    /\ LET a     == audit[f]
           class == aCatches[a.k]
           line  == CatchLine(a.k)
           i     == FirstCovering(class, a.list)
           next  == IF a.k = Len(aCatches) THEN [a EXCEPT !.pos = "end"]
                    ELSE [a EXCEPT !.k = @ + 1]
       IN  IF checked = 1
           THEN /\ audit' = [audit EXCEPT ![f] = next]
                /\ UNCHANGED diag
           ELSE IF i = 0
           THEN /\ audit' = [audit EXCEPT ![f] =
                               [next EXCEPT !.list =
                                   Append(a.list, [class |-> class,
                                                   line |-> line])]]
                /\ UNCHANGED diag
           ELSE /\ audit' = [audit EXCEPT ![f] = next]
                /\ diag' = Append(diag,
                       IF a.list[i].class = class
                       THEN DuplicateCatch(class, AuditFile, line,
                                           a.list[i].line)
                       ELSE SuperfluousCatch(class, AuditFile, line,
                                             a.list[i].class,
                                             a.list[i].line))
    /\ UNCHANGED <<aCatches, checked>>
    /\ UNCHANGED <<engineVars, derivedVars, bridgeVars, cleanupVars,
                   mutexVars, storeVars>>

\* if (CHECK_END) continue; if (!ready && SETJMP(finalBuf) == 0) ready = 1;
\* else break;
CheckEnd(f) ==
    /\ audit[f].pos = "end"
    /\ audit' = IF checked = 0 THEN [audit EXCEPT ![f].pos = "begin"]
                ELSE IF audit[f].ready = 0
                THEN [audit EXCEPT ![f].pos = "begin", ![f].ready = 1]
                ELSE [audit EXCEPT ![f].pos = "out"]
    /\ UNCHANGED <<aCatches, checked, diag>>
    /\ UNCHANGED <<engineVars, derivedVars, bridgeVars, cleanupVars,
                   mutexVars, storeVars>>

\* the try block runs to its end
AuditBody(f) ==
    /\ audit[f].pos = "body"
    /\ audit' = [audit EXCEPT ![f].pos = "end"]
    /\ UNCHANGED <<aCatches, checked, diag>>
    /\ UNCHANGED <<engineVars, derivedVars, bridgeVars, cleanupVars,
                   mutexVars, storeVars>>

InitCheck ==
    /\ InitEngine
    /\ InitDerived
    /\ config \in {"single", "shared"}
    /\ BridgeStart
    /\ aCatches \in CatchSeqs
    /\ AuditStart
    /\ InitCleanup

NextCheck ==
    \/ \E f \in Flows : AuditTry(f)
    \/ \E f \in Flows : ExceptCheckBegin(f)
    \/ \E f \in Flows : ExceptCheckBeginFinal(f)
    \/ \E f \in Flows : ExceptCheck(f)
    \/ \E f \in Flows : CheckEnd(f)
    \/ \E f \in Flows : AuditBody(f)

SpecCheck == InitCheck /\ [][NextCheck]_vars

----------------------------------------------------------------------------
(* The frame stores of the flows of a build with threads, and the cleanup  *)
(* of a flow that ceased to exist with frames on its stack                 *)

\* LifoPush(pLifo, pObject): pObjects[pointer++] = pObject
LifoPush(l, p) ==
    [l EXCEPT !.objs[l.pointer + 1] = p, !.pointer = @ + 1]

\* LifoDestroyData(pLifo): the pointers it passes to free(), in order:
\* while (pointer > 0) free(pObjects[pointer--]);
LifoDestroyData(l) ==
    [i \in 1..l.pointer |-> l.objs[(l.pointer - i + 1) + 1]]

Range(q) == { q[i] : i \in 1..Len(q) }

\* a flow that runs: it exists in the build, was not killed, and no cleanup
\* has ended in undefined behaviour
Alive(f) ==
    /\ Runs(f)
    /\ f \notin ceased
    /\ cleaned.outcome = "done"

\* ExceptTry() of flow <f>: handlers, frame allocated and pushed
ThreadTry(f) ==
    /\ Alive(f)
    /\ flows[f].frames < MaxFrames
    /\ Len(heap) < MaxAllocs
    /\ IF ~flows[f].ctx THEN InstallHandlers(f)
       ELSE /\ flows' = [flows EXCEPT ![f].frames = @ + 1]
            /\ UNCHANGED <<numThreadsTry, sharedHandler, sigDisp>>
    /\ heap' = Append(heap, "live")
    /\ lifo' = [lifo EXCEPT ![f] =
                   LifoPush([@ EXCEPT !.made = TRUE], Len(heap) + 1)]
    /\ UNCHANGED <<ceased, cleaned>>
    /\ UNCHANGED <<config, handled, engineVars, derivedVars, auditVars,
                   mutexVars, storeVars>>

\* ExceptFinally() of flow <f> with nothing pending: the frame is popped
\* (LifoPop: pObjects[--pointer]) and freed; with the last frame of the
\* stack the handlers are restored and the stack and the context destroyed
ThreadFinally(f) ==
    /\ Alive(f)
    /\ flows[f].frames > 0
    /\ heap' = [heap EXCEPT ![lifo[f].objs[lifo[f].pointer]] = "freed"]
    /\ IF flows[f].frames = 1
       THEN /\ RestoreHandlers(f)
            /\ lifo' = [lifo EXCEPT ![f] = NoLifo]
       ELSE /\ flows' = [flows EXCEPT ![f].frames = @ - 1]
            /\ lifo' = [lifo EXCEPT ![f].pointer = @ - 1]
            /\ UNCHANGED <<numThreadsTry, sharedHandler, sigDisp>>
    /\ UNCHANGED <<ceased, cleaned>>
    /\ UNCHANGED <<config, handled, engineVars, derivedVars, auditVars,
                   mutexVars, storeVars>>

\* flow <f> is killed inside a try statement
ThreadCease(f) ==
    /\ Alive(f)
    /\ flows[f].frames > 0
    /\ \E g \in Flows \ {f} : Alive(g)
    /\ ceased' = ceased \cup {f}
    /\ UNCHANGED <<lifo, heap, cleaned>>
    /\ UNCHANGED <<engineVars, derivedVars, bridgeVars, auditVars, mutexVars,
                   storeVars>>

\* ExceptThreadCleanup(f) called by flow <g>: ExceptRestoreHandlers(pC), in
\* which signal() acts for the caller, LifoDestroyData(), the test of
\* pC->pEx->checkList, the context removed and freed.  free() of a pointer
\* that is no live frame and the reading of a freed frame are undefined
\* behaviour: the call may end as if nothing were wrong, or not
ExceptThreadCleanup(g, f) ==
    /\ Alive(g)
    /\ g # f
    /\ f \in ceased
    /\ flows[f].ctx
    /\ IF SHARE_HANDLERS
       THEN /\ numThreadsTry' = numThreadsTry - 1
            /\ sigDisp' = IF numThreadsTry - 1 = 0
                          THEN SignalSet(sigDisp, g, sharedHandler)
                          ELSE sigDisp
       ELSE /\ sigDisp' = SignalSet(sigDisp, g, flows[f].saved)
            /\ UNCHANGED numThreadsTry
    /\ LET l     == lifo[f]
           freed == LifoDestroyData(l)
           wrong == \E i \in 1..Len(freed) :
                        \/ freed[i] = Junk
                        \/ heap[freed[i]] = "freed"
                        \/ \E j \in 1..(i - 1) : freed[j] = freed[i]
           read  == l.objs[l.pointer] \in Range(freed)
       IN  /\ heap' = [id \in 1..Len(heap) |->
                          IF id \in Range(freed) THEN "freed" ELSE heap[id]]
           /\ \E o \in IF wrong \/ read THEN UBOutcomes \cup {"done"}
                       ELSE {"done"} :
                  cleaned' = [by |-> g, of |-> f,
                              frames |-> { l.objs[i] : i \in 1..l.pointer },
                              freed |-> freed, readFreed |-> read,
                              counted |-> numThreadsTry' - numThreadsTry,
                              outcome |-> o]
    /\ flows' = [flows EXCEPT ![f] = NewFlow]
    /\ lifo' = [lifo EXCEPT ![f] = NoLifo]
    /\ ceased' = ceased \ {f}
    /\ UNCHANGED <<config, sharedHandler, handled>>
    /\ UNCHANGED <<engineVars, derivedVars, auditVars, mutexVars, storeVars>>

\* a build with threads, before any flow has executed a try statement
InitThreads ==
    /\ InitEngine
    /\ InitDerived
    /\ InitAudit
    /\ config \in {"private", "shared"}
    /\ BridgeStart
    /\ InitCleanup

NextCleanup ==
    \/ \E f \in Flows : ThreadTry(f)
    \/ \E f \in Flows : ThreadFinally(f)
    \/ \E f \in Flows : ThreadCease(f)
    \/ \E g, f \in Flows : ExceptThreadCleanup(g, f)

SpecCleanup == InitThreads /\ [][NextCleanup]_vars

----------------------------------------------------------------------------
(* ExceptMutex(), statement by statement, called by the flows of a build   *)
(* with POSIX threads                                                       *)

Others == <<engineVars, derivedVars, bridgeVars, auditVars, cleanupVars,
            storeVars>>

At(f, where) == thr[f].at = where
Goto(f, where) == thr' = [thr EXCEPT ![f].at = where]

\* EXCEPT_THREAD_MUTEX_FUNC(mode) called by flow <f>; the engine calls it
\* with mode 0 only after a call with mode 1
MutexCall(f, mode) ==
    /\ At(f, "out")
    /\ IF mode = 1 THEN thr[f].held < MaxHold ELSE thr[f].held > 0
    /\ thr' = [thr EXCEPT ![f].at = "test", ![f].mode = mode]
    /\ UNCHANGED <<mx, Others>>

\* one statement of ExceptMutex() executed by flow <f>.  When the routine
\* returns the flow is in one protected section more after a call with
\* mode 1, and in one less after a call with mode 0
ExceptMutex(f) ==
    LET Leave == thr' = [thr EXCEPT
                            ![f].at = "out",
                             ![f].held = IF thr[f].mode = 1 THEN @ + 1
                                         ELSE @ - 1]
    IN
    /\ \/ \* if (!initialized ...
          /\ At(f, "test")
          /\ Goto(f, IF mx.initialized = 0 THEN "fetch" ELSE "wait")
          /\ UNCHANGED mx
       \/ \* ... && !initialized++): the value is read ...
          /\ At(f, "fetch")
          /\ thr' = [thr EXCEPT ![f].at = "store", ![f].tmp = mx.initialized]
          /\ UNCHANGED mx
       \/ \* ... and the value plus one is written back
          /\ At(f, "store")
          /\ mx' = [mx EXCEPT !.initialized = thr[f].tmp + 1]
          /\ Goto(f, IF thr[f].tmp = 0 THEN "init" ELSE "wait")
       \/ \* pthread_mutex_init(&mutex, NULL); of a mutex that is locked it
          \* is undefined: the mutex stays locked or becomes free
          /\ At(f, "init")
          /\ \E o \in {mx.owner, NoFlow} :
                 mx' = [mx EXCEPT !.inits = @ + 1, !.owner = o]
          /\ Goto(f, "ready")
       \/ \* ready = 1;
          /\ At(f, "ready")
          /\ mx' = [mx EXCEPT !.ready = 1]
          /\ Goto(f, "mode")
       \/ \* while (!ready) ;
          /\ At(f, "wait")
          /\ mx.ready # 0
          /\ Goto(f, "mode")
          /\ UNCHANGED mx
       \/ \* mode 1: if (tid == pthread_self()) count++; else ...
          /\ At(f, "mode")
          /\ thr[f].mode = 1
          /\ IF mx.tid = f
             THEN /\ mx' = [mx EXCEPT !.count = @ + 1]
                  /\ Leave
             ELSE /\ Goto(f, "lock")
                  /\ mx' = [mx EXCEPT !.blocked = @ \/ thr[f].held > 0]
       \/ \* mode 0: if (tid == pthread_self()) { if (--count == 0)
          \* { tid = 0; ... } } else if (tid != 0 && ...) fprintf(...)
          /\ At(f, "mode")
          /\ thr[f].mode = 0
          /\ IF mx.tid = f
             THEN IF mx.count - 1 = 0
                  THEN /\ mx' = [mx EXCEPT !.count = 0, !.tid = NoFlow]
                       /\ Goto(f, "unlock")
                  ELSE /\ mx' = [mx EXCEPT !.count = @ - 1]
                       /\ Leave
             ELSE /\ UNCHANGED mx
                  /\ Leave
       \/ \* pthread_mutex_lock(&mutex); returns when the mutex is free
          /\ At(f, "lock")
          /\ mx.owner = NoFlow
          /\ mx' = [mx EXCEPT !.owner = f, !.early = @ \/ mx.inits = 0]
          /\ Goto(f, "tid")
       \/ \* tid = pthread_self(); count = 1;
          /\ At(f, "tid")
          /\ mx' = [mx EXCEPT !.tid = f, !.count = 1]
          /\ Leave
       \/ \* pthread_mutex_unlock(&mutex);
          /\ At(f, "unlock")
          /\ mx' = [mx EXCEPT !.owner = NoFlow, !.early = @ \/ mx.inits = 0]
          /\ Leave
    /\ UNCHANGED Others

NextMutex ==
    \/ \E f \in Flows, mode \in {0, 1} : MutexCall(f, mode)
    \/ \E f \in Flows : ExceptMutex(f)

SpecMutex == InitThreads /\ [][NextMutex]_vars

----------------------------------------------------------------------------
(* The context store of the build with POSIX threads: the engine operations *)
(* of each flow, with every access to pContextHash and numThreadsTry        *)
(* between ExceptMutex(1) and ExceptMutex(0)                                *)

Fixed == <<engineVars, derivedVars, auditVars, cleanupVars, config, flows,
           handled>>
Handlers == <<numThreadsTry, sharedHandler, sigDisp>>

Locked(ops) == <<"lock">> \o ops \o <<"unlock">>

\* flow <f> is outside ExceptMutex() and <op> is the next step of its
\* operation
Next1(f, op) ==
    /\ At(f, "out")
    /\ job[f].ops # <<>>
    /\ Head(job[f].ops) = op

Rest(f) == Tail(job[f].ops)

\* the step is done, with the steps <more> to be made before the rest
Step(f, more) == job' = [job EXCEPT ![f].ops = more \o Rest(f)]

InUserCode(f) == At(f, "out") /\ job[f].ops = <<>>

\* a context that exists, with a frame stack
Usable(c) == c # NoContext /\ ctxs[c].made /\ ~ctxs[c].freed

\* EXCEPT_THREAD_MUTEX_FUNC(1) and EXCEPT_THREAD_MUTEX_FUNC(0) in the
\* engine operations
StoreMutex(f) ==
    /\ \/ /\ Next1(f, "lock")
          /\ thr' = [thr EXCEPT ![f].at = "test", ![f].mode = 1]
       \/ /\ Next1(f, "unlock")
          /\ thr' = [thr EXCEPT ![f].at = "test", ![f].mode = 0]
    /\ Step(f, <<>>)
    /\ UNCHANGED <<store, ctxs, mx, Handlers, Fixed>>

\* ExceptGetContext(NULL): if (pC == NULL && pContextHash != NULL)
\*     pC = HashLookup(pContextHash, EXCEPT_THREAD_ID_FUNC());
ExceptGetContext(f) ==
    /\ Next1(f, "lookup")
    /\ job' = [job EXCEPT ![f].ops = Rest(f),
                          ![f].pC = IF ~store.made THEN NoContext
                                    ELSE store.of[f]]
    /\ UNCHANGED <<store, ctxs, mutexVars, Handlers, Fixed>>

\* try, outside any try statement: ExceptTry(NULL, ...) and the first
\* statements of the loop of the macro
StoreTry(f) ==
    /\ \/ \* the statement is reached
          /\ InUserCode(f)
          /\ job[f].in = "outside"
          /\ job[f].tries < MaxTries
          /\ job' = [job EXCEPT
                        ![f].ops = Locked(<<"probe">>) \o Locked(<<"lookup">>)
                                   \o <<"create", "install", "push">>
                                   \o Locked(<<"lookup">>) \o <<"enter">>,
                        ![f].pC = NoContext,
                        ![f].tries = @ + 1]
          /\ UNCHANGED <<store, ctxs>>
       \/ \* if (pContextHash == NULL) ...
          /\ Next1(f, "probe")
          /\ Step(f, IF ~store.made THEN <<"hashcreate">> ELSE <<>>)
          /\ UNCHANGED <<store, ctxs>>
       \/ \* ... pContextHash = HashCreate();
          /\ Next1(f, "hashcreate")
          /\ store' = [made |-> TRUE, of |-> [g \in Flows |-> NoContext]]
          /\ Step(f, <<>>)
          /\ UNCHANGED ctxs
       \/ \* LifoPush(pC->exStack, pC->pEx = calloc(sizeof(Except), 1));
          /\ Next1(f, "push")
          /\ ctxs' = [ctxs EXCEPT ![job[f].pC].stack =
                         Append(@, [by |-> f, exc |-> NoFlow])]
          /\ Step(f, <<>>)
          /\ UNCHANGED store
       \/ \* Context *pC = ExceptGetContext(pC); ... pC->pEx->ready: without
          \* a context a null pointer is dereferenced
          /\ Next1(f, "enter")
          /\ job' = [job EXCEPT
                        ![f].ops = Rest(f),
                        ![f].in = IF job[f].pC = NoContext THEN "crashed"
                                  ELSE "try"]
          /\ UNCHANGED <<store, ctxs>>
    /\ UNCHANGED <<mutexVars, Handlers, Fixed>>

\* if (pC == NULL) pC = ExceptCreateContext(): calloc(), HashAdd(); while
\* another flow changes the table the node may be lost
ExceptCreateContext(f) ==
    /\ \/ /\ Next1(f, "create")
          /\ IF job[f].pC # NoContext
             THEN /\ Step(f, <<>>)
                  /\ UNCHANGED ctxs
             ELSE /\ ctxs' = Append(ctxs, [owner |-> f, made |-> FALSE,
                                           freed |-> FALSE, stack |-> <<>>,
                                           saved |-> NoHandlers])
                  /\ job' = [job EXCEPT
                                ![f].ops = Locked(<<"add">>) \o Rest(f),
                                ![f].pC = Len(ctxs) + 1,
                                ![f].mine = Len(ctxs) + 1]
          /\ UNCHANGED store
       \/ /\ Next1(f, "add")
          /\ \E kept \in IF \E g \in Flows \ {f} :
                                /\ thr[g].held > 0
                                /\ Next1(g, "add") \/ Next1(g, "remove")
                         THEN BOOLEAN ELSE {TRUE} :
                 store' = IF kept THEN [store EXCEPT !.of[f] = job[f].pC]
                          ELSE store
          /\ Step(f, <<>>)
          /\ UNCHANGED ctxs
    /\ UNCHANGED <<mutexVars, Handlers, Fixed>>

\* ExceptInstallHandlers() and ExceptRestoreHandlers(), with
\* numThreadsTry++ and --numThreadsTry as a read and a write
StoreHandlers(f) ==
    /\ \/ \* if (pC->exStack == NULL) pC->exStack = LifoCreate(); ...
          /\ Next1(f, "install")
          /\ IF ctxs[job[f].pC].made
             THEN /\ Step(f, <<>>)
                  /\ UNCHANGED ctxs
             ELSE /\ ctxs' = [ctxs EXCEPT ![job[f].pC].made = TRUE]
                  /\ Step(f, Locked(IF SHARE_HANDLERS THEN <<"fetch", "up">>
                                    ELSE <<"up">>))
          /\ UNCHANGED Handlers
       \/ \* the value of numThreadsTry is read ...
          /\ Next1(f, "fetch")
          /\ job' = [job EXCEPT ![f].ops = Rest(f), ![f].tmp = numThreadsTry]
          /\ UNCHANGED <<ctxs, Handlers>>
       \/ \* ... if (... numThreadsTry++ == 0) shared handler = signal(...)
          \* else if (!MULTI_THREADING || !SHARE_HANDLERS)
          \*     pC->handler = signal(...)
          /\ Next1(f, "up")
          /\ IF SHARE_HANDLERS
             THEN /\ numThreadsTry' = job[f].tmp + 1
                  /\ IF job[f].tmp = 0
                     THEN /\ sharedHandler' = sigDisp[f]
                          /\ sigDisp' = SignalSet(sigDisp, f, Translating)
                     ELSE UNCHANGED <<sharedHandler, sigDisp>>
                  /\ UNCHANGED ctxs
             ELSE /\ ctxs' = [ctxs EXCEPT ![job[f].pC].saved = sigDisp[f]]
                  /\ sigDisp' = SignalSet(sigDisp, f, Translating)
                  /\ UNCHANGED <<numThreadsTry, sharedHandler>>
          /\ Step(f, <<>>)
       \/ \* if (... --numThreadsTry == 0) signal(..., shared handler)
          \* else if (...) signal(..., pC->handler)
          /\ Next1(f, "down")
          /\ IF SHARE_HANDLERS
             THEN /\ numThreadsTry' = job[f].tmp - 1
                  /\ sigDisp' = IF job[f].tmp - 1 = 0
                                THEN SignalSet(sigDisp, f, sharedHandler)
                                ELSE sigDisp
             ELSE /\ sigDisp' = SignalSet(sigDisp, f, ctxs[job[f].pC].saved)
                  /\ UNCHANGED numThreadsTry
          /\ Step(f, <<>>)
          /\ UNCHANGED <<ctxs, sharedHandler>>
    /\ UNCHANGED <<store, mutexVars, Fixed>>

\* throw(class, data) in the try block, which is ExceptThrow(pC, ...) with
\* the pC of the block, and a trap in flow <f> while the handler of the
\* signal is ExceptThrowSignal(): signal(number, ExceptThrowSignal);
\* ExceptThrow(NULL, class, NULL, "?", 0);
StoreThrow(f) ==
    /\ \/ /\ InUserCode(f)
          /\ job[f].in = "try"
          /\ job' = [job EXCEPT ![f].ops = <<"throw">>]
          /\ UNCHANGED <<ctxs, sigDisp>>
       \/ /\ InUserCode(f)
          /\ job[f].in \in {"outside", "try"}
          /\ \E n \in Signals :
                 /\ sigDisp[f][n] = "ExceptThrowSignal"
                 /\ job' = [job EXCEPT
                               ![f].ops = <<"signal">> \o Locked(<<"lookup">>)
                                          \o <<"throw">>,
                               ![f].pC = NoContext,
                               ![f].sig = n]
          /\ UNCHANGED <<ctxs, sigDisp>>
       \/ \* signal(number, ExceptThrowSignal);
          /\ Next1(f, "signal")
          /\ sigDisp' = SignalSet(sigDisp, f,
                                  Only(job[f].sig, "ExceptThrowSignal"))
          /\ job' = [job EXCEPT ![f].ops = Rest(f), ![f].sig = NoSignal]
          /\ UNCHANGED ctxs
       \/ \* ExceptThrow(): without context, stack or frame the exception
          \* is lost; else it is stored in pC->pEx and the catch clauses of
          \* the flow are tried
          /\ Next1(f, "throw")
          /\ LET c == job[f].pC
             IN  IF c = NoContext \/ ~ctxs[c].made \/ ctxs[c].stack = <<>>
                 THEN /\ job' = [job EXCEPT
                                    ![f].ops = Rest(f),
                                    ![f].in = IF @ = "try" THEN "lost" ELSE @]
                      /\ UNCHANGED ctxs
                 ELSE /\ ctxs' = [ctxs EXCEPT
                                     ![c].stack[Len(ctxs[c].stack)].exc = f]
                      /\ job' = [job EXCEPT ![f].ops = Rest(f),
                                            ![f].in = "catch"]
          /\ UNCHANGED sigDisp
    /\ UNCHANGED <<store, mutexVars, numThreadsTry, sharedHandler, Fixed>>

\* finally: ExceptGetContext(pC)->pEx->scope = FINALLY; ... ExceptFinally(pC)
\* with the global pC, which is NULL: ex = *(pEx = LifoPop(pC->exStack));
\* free(pEx); and for the outermost try statement ExceptRestoreHandlers(),
\* LifoDestroy(), free(HashRemove(...))
StoreFinally(f) ==
    /\ \/ /\ InUserCode(f)
          /\ job[f].in \in {"try", "catch", "lost"}
          /\ job' = [job EXCEPT ![f].ops = Locked(<<"lookup">>) \o <<"pop">>,
                                ![f].pC = NoContext]
          /\ UNCHANGED <<store, ctxs>>
       \/ /\ Next1(f, "pop")
          /\ LET c == job[f].pC
             IN  IF ~Usable(c) \/ ctxs[c].stack = <<>>
                 THEN /\ job' = [job EXCEPT ![f].ops = <<>>,
                                            ![f].in = "crashed"]
                      /\ UNCHANGED ctxs
                 ELSE /\ ctxs' = [ctxs EXCEPT
                                     ![c].stack = SubSeq(@, 1, Len(@) - 1)]
                      /\ Step(f, IF Len(ctxs[c].stack) = 1
                                 THEN Locked(IF SHARE_HANDLERS
                                             THEN <<"fetch", "down">>
                                             ELSE <<"down">>)
                                      \o Locked(<<"remove">>) \o <<"free">>
                                 ELSE <<"leave">>)
          /\ UNCHANGED store
       \/ /\ Next1(f, "remove")
          /\ job' = [job EXCEPT ![f].ops = Rest(f), ![f].tmp = store.of[f]]
          /\ store' = [store EXCEPT !.of[f] = NoContext]
          /\ UNCHANGED ctxs
       \/ /\ Next1(f, "free")
          /\ ctxs' = IF job[f].tmp = NoContext THEN ctxs
                     ELSE [ctxs EXCEPT ![job[f].tmp].freed = TRUE]
          /\ job' = [job EXCEPT ![f] = [Idle EXCEPT !.tries = job[f].tries,
                                                    !.hit = job[f].hit]]
          /\ UNCHANGED store
    /\ UNCHANGED <<mutexVars, Handlers, Fixed>>

\* a trap signal is delivered to flow <f> while it executes an engine
\* operation inside a protected section, with ExceptThrowSignal() as the
\* handler: signal(number, ExceptThrowSignal); ExceptThrow(NULL, class, NULL,
\* "?", 0), which looks the context up and, if the flow is in a try
\* statement whose block was entered, jumps to the catch clauses or the
\* finally block; the operation that was interrupted is abandoned.  If
\* ExceptThrow() returns, the handler returns and the operation goes on
StoreTrap(f) ==
    /\ \/ /\ At(f, "out")
          /\ thr[f].held > 0
          /\ job[f].ops # <<>>
          /\ job[f].hit = 0
          /\ Cardinality({ g \in Flows : job[g].hit > 0 }) < MaxHit
          /\ \E n \in Signals :
                 /\ sigDisp[f][n] = "ExceptThrowSignal"
                 /\ job' = [job EXCEPT
                               ![f].ops = <<"signal">> \o Locked(<<"lookup">>)
                                          \o <<"handle">> \o @,
                               ![f].keep = job[f].pC,
                               ![f].pC = NoContext,
                               ![f].hit = 1,
                               ![f].sig = n]
          /\ UNCHANGED ctxs
       \/ /\ Next1(f, "handle")
          /\ LET c == job[f].pC
             IN  IF \/ c = NoContext \/ ~ctxs[c].made \/ ctxs[c].stack = <<>>
                    \/ job[f].in = "outside"
                 THEN /\ job' = [job EXCEPT ![f].ops = Rest(f),
                                            ![f].pC = job[f].keep]
                      /\ UNCHANGED ctxs
                 ELSE /\ ctxs' = [ctxs EXCEPT
                                     ![c].stack[Len(ctxs[c].stack)].exc = f]
                      /\ job' = [job EXCEPT ![f].ops = <<>>,
                                            ![f].in = "catch"]
    /\ UNCHANGED <<store, mutexVars, Handlers, Fixed>>

NextStore ==
    \/ \E f \in Flows : StoreTry(f)
    \/ \E f \in Flows : StoreMutex(f)
    \/ \E f \in Flows : ExceptMutex(f)
    \/ \E f \in Flows : ExceptGetContext(f)
    \/ \E f \in Flows : ExceptCreateContext(f)
    \/ \E f \in Flows : StoreHandlers(f)
    \/ \E f \in Flows : StoreThrow(f)
    \/ \E f \in Flows : StoreFinally(f)

SpecStore == InitThreads /\ [][NextStore]_vars

\* a build with threads in which one flow executes try statements, and
\* traps are delivered to it in user code and inside protected sections
NextHeld ==
    \E f \in {"A"} :
        \/ StoreTry(f)
        \/ StoreMutex(f)
        \/ ExceptMutex(f)
        \/ ExceptGetContext(f)
        \/ ExceptCreateContext(f)
        \/ StoreHandlers(f)
        \/ StoreThrow(f)
        \/ StoreFinally(f)
        \/ StoreTrap(f)

SpecHeld == InitThreads /\ [][NextHeld]_vars

----------------------------------------------------------------------------
(* ExceptIsDerived() applied to every pair of classes *)

InitDerivedAll ==
    /\ InitEngine
    /\ InitBridge
    /\ InitAudit
    /\ InitCleanup
    /\ dClass \in AllClasses
    /\ dBase \in AllClasses
    /\ dRes = "none"

DerivedCall ==
    /\ dRes = "none"
    /\ dRes' = IF ExceptIsDerived(dClass, dBase) THEN "1" ELSE "0"
    /\ UNCHANGED <<dClass, dBase>>
    /\ UNCHANGED <<engineVars, bridgeVars, auxVars>>

NextDerived == DerivedCall

SpecDerived == InitDerivedAll /\ [][NextDerived]_vars

----------------------------------------------------------------------------
(* A propagation followed from its throw statement to its end.  Before the *)
(* throw the program does what the programs of Next do; after it the user  *)
(* blocks only end.                                                        *)

\* the record of the propagation after a step with outcome <r>: the call of
\* ExceptFinally() counted, the finally block the step entered, and the end
\* in a catch block or in the default action of the outermost level
Followed(r, call) ==
    LET u == r.unwind
        inside == ~r.ub /\ r.pc = "user" /\ r.cs # <<>>
                  /\ r.cs[Len(r.cs)].sites # <<>>
        site == CurSite(r)
        old == IF /\ CurA(r) <= Len(r.base)
                  /\ CurS(r) <= Len(r.base[CurA(r)].sites)
               THEN r.base[CurA(r)].sites[CurS(r)] ELSE NewSite(<<>>)
        entered == inside /\ site.blk = "finally"
                   /\ (old.blk # "finally" \/ old.fin # site.fin)
    IN  [r EXCEPT !.unwind =
            [u EXCEPT
                !.steps = IF call THEN @ + 1 ELSE @,
                !.fins = IF entered THEN Append(@, Here(CurA(r), CurS(r)))
                         ELSE @,
                !.end = IF r.ub THEN "undefined"
                        ELSE IF inside /\ site.blk = "catch" THEN "catch"
                        ELSE IF r.stack = <<>>
                                /\ r.ev.kind \in {"lost", "raise", "assert"}
                             THEN "default"
                        ELSE "none",
                !.clause = IF inside /\ site.blk = "catch"
                              /\ site.cidx \in 1..Len(site.catches)
                           THEN site.catches[site.cidx] ELSE NULL,
                !.caught = IF inside /\ site.blk = "catch" /\ r.pex > 0
                           THEN Exn(r.stack[r.pex])
                           ELSE IF r.stack = <<>> /\ r.ev.kind = "lost"
                           THEN [NoExn EXCEPT !.class = r.ev.class,
                                              !.file = r.ev.file,
                                              !.line = r.ev.line]
                           ELSE NoExn]]

\* throw(class, data) in a block of a try statement: the propagation that is
\* followed from here on
UnwindThrow(t) ==
    /\ InUser
    /\ unwind.n = 0
    /\ Len(exStack) >= 1
    /\ Apply(Followed(
           ExceptThrow(
               [Cur EXCEPT !.unwind =
                   [NoUnwind EXCEPT
                       !.n = Len(exStack),
                       !.open = [i \in 1..Len(exStack) |->
                           [at |-> exStack[Len(exStack) + 1 - i].own,
                            scope |-> exStack[Len(exStack) + 1 - i].scope]],
                       !.thrown = [class |-> t.class,
                                   pData |-> UserData(t.data),
                                   file |-> ThrowFile, line |-> t.line]]],
               ClassObj(t.class), UserData(t.data), ThrowFile, t.line),
           FALSE))
    /\ UNCHANGED <<derivedVars, bridgeVars, auxVars>>

\* the propagation can make a step: a user block ends, the next catch clause
\* is evaluated, or ExceptFinally() is called
Unwinding ==
    /\ unwind.n > 0
    /\ unwind.end = "none"
    /\ unwind.steps <= unwind.n
    /\ Len(unwind.fins) <= unwind.n
    /\ moves < MaxMoves
    /\ \/ InUser /\ cs[Len(cs)].sites # <<>>
       \/ pc = "catch"
       \/ pc = "resolve"

\* the steps of the propagation
Unwind ==
    /\ Unwinding
    /\ LET r == IF pc = "catch" THEN Followed(CatchMacro(Cur, ck), FALSE)
                ELSE IF pc = "resolve"
                    THEN Followed(ExceptFinally(Cur), TRUE)
                ELSE IF CurSite(Cur).blk = "finally"
                    THEN Followed(FinallyBlockEnd(Cur), FALSE)
                ELSE Followed(AfterBlocks(Cur), FALSE)
       IN  Apply([r EXCEPT !.moves = moves + 1])
    /\ UNCHANGED <<derivedVars, bridgeVars, auxVars>>

\* a step of the propagation, by what it does to <moves>
Moved == Unwinding /\ moves' = moves + 1

NextUnwind ==
    \/ unwind.n = 0 /\ Next
    \/ \E t \in ThrowStmts : UnwindThrow(t)
    \/ Unwind

\* the engine runs on and the user blocks terminate: the propagation makes
\* its next step.  A step of Unwind is a step that changes <moves>, and
\* Unwind is enabled exactly where Unwinding holds.
SpecUnwind == Init /\ [][NextUnwind]_vars /\ WF_moves(Moved)

----------------------------------------------------------------------------
(* Properties *)

SiteIds ==
    UNION { { <<a, s>> : s \in 1..Len(cs[a].sites) } : a \in 1..Len(cs) }

SiteAt(q) == cs[q[1]].sites[q[2]]

\* the try statements whose catch block is running, and the frame <e> of each
CatchSites ==
    { q \in SiteIds : SiteAt(q).blk = "catch"
                      /\ SiteAt(q).e \in 1..Len(exStack) }

Caught(q) == exStack[SiteAt(q).e]

\* C1: every try statement that is left has run its finally block exactly
\* once and has had its frame popped by ExceptFinally() exactly once,
\* whichever way it is left; no finally block runs twice.
C1_FinallyAndPopOnce ==
    /\ \A x \in exited : x.fin = 1 /\ x.pops = 1
    /\ \A q \in SiteIds : SiteAt(q).fin <= 1 /\ SiteAt(q).pops = 0

\* C2 as stated: the handler that catches an exception rethrown by
\* throw(e, data2) gets data2 from getData().
C2_RethrowReplacesData ==
    \A q \in CatchSites :
        Caught(q).rd # "" => Caught(q).pData = UserData(Caught(q).rd)

\* C2: the handler that catches an exception rethrown by throw(e, data2)
\* gets the data of the first throw from getData(): data2 is ignored.
C2_RethrowKeepsData ==
    \A q \in CatchSites :
        Caught(q).rd # "" =>
            /\ Caught(q).pData # UserData(Caught(q).rd)
            /\ \E t \in ThrowStmts : /\ Caught(q).class = t.class
                                     /\ Caught(q).pData = UserData(t.data)

C2_Witness ==
    \E q \in CatchSites : /\ Caught(q).rd = RethrowData
                          /\ Caught(q).pData = UserData("Hello")

\* C3: the handler that catches a rethrown exception finds the class, file
\* and line of the first throw; the file and line of the rethrow statement
\* are not recorded.
C3_RethrowKeepsOrigin ==
    \A q \in CatchSites :
        Caught(q).rd # "" =>
            /\ Caught(q).file = ThrowFile
            /\ \E t \in ThrowStmts : /\ Caught(q).class = t.class
                                     /\ Caught(q).line = t.line

C3_Witness ==
    \E q \in CatchSites : /\ Caught(q).rd # ""
                          /\ Caught(q).file = ThrowFile
                          /\ Caught(q).line # RethrowLine

\* number of the first clause of <catches> that matches <class>, 0 if none
FirstMatch(class, catches) ==
    LET m == { i \in 1..Len(catches) : ExceptIsDerived(class, catches[i]) }
    IN  IF m = {} THEN 0 ELSE CHOOSE i \in m : \A j \in m : i <= j

Up(S) == S \cup { Parent[c] : c \in { x \in S : Parent[x] # NULL } }
ChainOf(c) == Up(Up(Up(Up({c}))))

\* C5: ExceptIsDerived(C, P) is true exactly when P is C or is reached from
\* C along the parent references; a class is derived from itself, every
\* class of the tree is derived from Throwable, a parent is not derived
\* from its child, and the walk ends for every pair of classes.
C5_IsDerived ==
    dRes # "none" =>
        /\ (dRes = "1") = (dBase \in ChainOf(dClass))
        /\ dClass = dBase => dRes = "1"
        /\ (dBase = "Throwable" /\ dClass \in UserClasses) => dRes = "1"
        /\ Parent[dBase] = dClass => dRes = "0"

C5_Witness ==
    dRes = "1" /\ dClass = "Level2Exception" /\ dBase = "Exception"

\* C6: a catch block that handles an exception passed on by ExceptFinally()
\* from an inner try statement finds the class, data, file and line of the
\* throw statement that raised it.
C6_PropagationKeepsException ==
    \A q \in CatchSites :
        Caught(q).prop =>
            \E t \in ThrowStmts : /\ Caught(q).class = t.class
                                  /\ Caught(q).pData = UserData(t.data)
                                  /\ Caught(q).file = ThrowFile
                                  /\ Caught(q).line = t.line

C6_Witness ==
    \E q \in CatchSites : /\ Caught(q).prop
                          /\ Caught(q).rd = ""
                          /\ Caught(q).class = "Level1Exception"

\* C7: a try statement whose frame is popped holding the return event of a
\* return(v) executed in its try block has run its finally block once and
\* none of its catch blocks, and its frame is popped once; the subroutine
\* returns v to its caller only after that.
C7_ReturnInTry ==
    \A x \in exited :
        /\ x.pval = ReturnValueIn(x.s, "try") =>
               x.fin = 1 /\ x.pops = 1 /\ x.ncatch = 0
        /\ (/\ ev.kind = "ret"
            /\ ev.act = x.a
            /\ ev.val = ReturnValueIn(x.s, "try")) =>
               x.pval = ev.val /\ x.fin = 1 /\ x.pops = 1 /\ x.ncatch = 0

C9_NestedReturn ==
    /\ (/\ pc = "resolve"
        /\ exStack[pEx].state = "PENDING"
        /\ exStack[pEx].class = "ReturnEvent") =>
           /\ CurSite(Cur).fin = 1
           /\ \A s \in 1..(CurS(Cur) - 1) :
                  cs[CurA(Cur)].sites[s].blk # "finally" =>
                      cs[CurA(Cur)].sites[s].fin = 0
    /\ \A x \in exited :
           /\ (x.pval # 0 /\ ev.kind # "ret") =>
                  pEx > 0 /\ HeldReturn(exStack[pEx]) = x.pval
           /\ ev.kind = "ret" =>
                  x.fin = 1 /\ (x.pops = 1 => ev.val = x.pval)

\* C10: a frame that holds a pending return event belongs to a try statement
\* of the subroutine activation that executed the return(): return(x) marks
\* and pops only frames of its own activation.
C10_ReturnOwnFrames ==
    \A i \in 1..Len(exStack) :
        (exStack[i].state = "PENDING" /\ exStack[i].class = "ReturnEvent") =>
            /\ exStack[i].pData.k = "jmp"
            /\ exStack[i].pData.act = exStack[i].own.a

\* the innermost try statement that is open, in the running subroutine or
\* in the nearest caller that has one; <<0, 0>> if there is none
Innermost ==
    LET A == { a \in 1..Len(cs) : cs[a].sites # <<>> }
    IN  IF A = {} THEN <<0, 0>>
        ELSE LET a == CHOOSE x \in A : \A y \in A : y <= x
             IN  <<a, Len(cs[a].sites)>>

InTryBlock ==
    /\ InUser
    /\ Innermost # <<0, 0>>
    /\ SiteAt(Innermost).blk = "try"

\* the catch clauses from number <k> on are evaluated one after the other
RECURSIVE EvalCatches(_, _)
EvalCatches(r, k) ==
    IF r.ub \/ r.pc # "catch" \/ k > Len(CurSite(r).catches) + 1 THEN r
    ELSE EvalCatches(CatchMacro(r, k), k + 1)

\* C11: a trap signal delivered while the flow is in a try block makes the
\* frame of that try statement hold a pending exception of the class
\* assigned to the signal, with file "?" and line 0, and starts the
\* evaluation of its catch clauses; the first clause whose class is that
\* class or an ancestor of it enters its catch block.
C11_SignalCaught ==
    \A n \in Signals :
        InTryBlock =>
            LET r == Deliver(Cur, n)
                c == EvalCatches(r, 1)
                k == FirstMatch(SignalClass[n], SiteAt(Innermost).catches)
            IN  /\ ~r.ub
                /\ r.pc = "catch"
                /\ <<CurA(r), CurS(r)>> = Innermost
                /\ r.stack[r.pex].own = Here(CurA(r), CurS(r))
                /\ r.stack[r.pex].state = "PENDING"
                /\ r.stack[r.pex].class = SignalClass[n]
                /\ r.stack[r.pex].file = "?"
                /\ r.stack[r.pex].line = 0
                /\ k > 0 => /\ ~c.ub
                            /\ c.pc = "user"
                            /\ CurSite(c).blk = "catch"
                            /\ CurSite(c).cidx = k
                            /\ c.stack[c.pex].state = "CAUGHT"

\* C12: a trap signal delivered to a flow that has no frame is handled by
\* the disposition the application had installed, not by
\* ExceptThrowSignal(), in every build, also with shared handlers while
\* another flow is in a try statement.
C12_PriorOutsideTry ==
    (handled.flow # "none" /\ handled.frames = 0) => handled.by = "prior"

\* C13: when no flow has a frame, the disposition of every trap signal is the
\* one that was in place before the first try installed ExceptThrowSignal().
C13_HandlersRestored ==
    (\A f \in Flows : flows[f].frames = 0 /\ flows[f].inHandler = NoSignal) =>
        \A f \in Flows : sigDisp[f] = Prior

\* the last frame of the stack is about to be popped and holds a pending
\* exception made of a trap signal
TrapPendingAtExit ==
    /\ pc = "resolve"
    /\ Len(exStack) = 1
    /\ exStack[1].state = "PENDING"
    /\ exStack[1].file = "?"
    /\ \E n \in Signals : exStack[1].class = SignalClass[n]

ThrowOutside == InUser /\ (~exAlloc \/ exStack = <<>>)

\* C15: a throw executed while there is no context or no frame prints the
\* lost diagnostic with the class, file and line of the throw statement and
\* returns; no frame is made, no handler installed and nothing else of the
\* context changes.
C15_ThrowOutsideLost ==
    /\ ThrowOutside =>
           \A t \in ThrowStmts :
               ExceptThrow(Cur, ClassObj(t.class), UserData(t.data),
                           ThrowFile, t.line)
                 = [Cur EXCEPT !.ev = EvLost(t.class, ThrowFile, t.line)]
    /\ (ev.kind = "lost" /\ exited = {}) =>
           /\ pc = "user"
           /\ exStack = <<>>
           /\ ~exAlloc
           /\ pEx = 0
           /\ disp = "prior"
           /\ \E t \in ThrowStmts : /\ ev.class = t.class
                                    /\ ev.file = ThrowFile
                                    /\ ev.line = t.line

C15_Witness ==
    /\ ev.kind = "lost"
    /\ exited = {}
    /\ ev.class = "Exception"
    /\ ev.line = 574
    /\ Len(cs) = 2

\* throw(class, data) of throw statement <t>, executed now
ThrowNow(t) ==
    ExceptThrow(Cur, ClassObj(t.class), UserData(t.data), ThrowFile, t.line)

\* frame <ex> holds the pending exception of throw statement <t>
HoldsThrow(ex, t) ==
    /\ ex.state = "PENDING"
    /\ ex.class = t.class
    /\ ex.pData = UserData(t.data)
    /\ ex.file = ThrowFile
    /\ ex.line = t.line

\* C16: a throw executed in a catch block puts the new exception in place of
\* the caught one on the frame of the try statement, marks it pending and
\* enters the finally block of that try statement; no catch clause is
\* evaluated for it, whatever the classes of the clauses that follow.
C16_ThrowInCatch ==
    (InUser /\ CurBlk = "catch") =>
        \A t \in ThrowStmts :
            LET r == ThrowNow(t)
            IN  /\ ~r.ub
                /\ r.pc = "user"
                /\ <<CurA(r), CurS(r)>> = <<CurA(Cur), CurS(Cur)>>
                /\ CurSite(r).blk = "finally"
                /\ CurSite(r).fin = CurSite(Cur).fin + 1
                /\ CurSite(r).ncatch = CurSite(Cur).ncatch
                /\ r.pex = pEx
                /\ r.stack[r.pex].own = Here(CurA(Cur), CurS(Cur))
                /\ HoldsThrow(r.stack[r.pex], t)

\* C17: a throw executed in a finally block puts the new exception in place
\* of what the frame holds, leaves the finally block without entering it
\* again, and ExceptFinally() then passes the new exception to the
\* enclosing frame or, for the last frame, reports it lost.
C17_ThrowInFinally ==
    (InUser /\ CurBlk = "finally") =>
        \A t \in ThrowStmts :
            LET r == ThrowNow(t)
                f == ExceptFinally(r)
            IN  /\ ~r.ub
                /\ r.pc = "resolve"
                /\ <<CurA(r), CurS(r)>> = <<CurA(Cur), CurS(Cur)>>
                /\ CurSite(r).fin = CurSite(Cur).fin
                /\ r.pex = pEx
                /\ r.stack[r.pex].own = Here(CurA(Cur), CurS(Cur))
                /\ HoldsThrow(r.stack[r.pex], t)
                /\ ~f.ub
                /\ IF pEx = 1
                   THEN f.ev = EvLost(t.class, ThrowFile, t.line)
                   ELSE /\ f.pex = pEx - 1
                        /\ HoldsThrow(f.stack[f.pex], t)

\* ExceptFinally() at <r> makes the running subroutine return v or passes
\* the return event of return(v) on to the frame below; it reports no lost
\* exception and takes no default action
ReturnsOrPassesOn(r, v) ==
    LET f == ExceptFinally(r)
    IN  /\ ~f.ub
        /\ \/ f.ev = EvRet(CurA(r), v)
           \/ /\ f.ev = r.ev
              /\ f.pex = r.pex - 1
              /\ f.pex > 0
              /\ HeldReturn(f.stack[f.pex]) = v
              /\ f.stack[f.pex].pData.act = CurA(r)

\* the frame of the try statement in whose block the program is holds a
\* pending exception
PendingException ==
    \E i \in 1..Len(exStack) :
        /\ exStack[i].own = Here(CurA(Cur), CurS(Cur))
        /\ exStack[i].state = "PENDING"
        /\ exStack[i].class \in AllClasses \ {"ReturnEvent"}

\* C18: return(x) executed in a catch block puts its return event in place
\* of the caught exception and enters the finally block; return(x) executed
\* in a finally block entered with a pending exception puts it in place of
\* that exception and leaves the block; ExceptFinally() of a frame that holds the event of such
\* a return() makes the subroutine return x or passes the event on, and
\* neither reports an exception lost nor takes a default action.
C18_ReturnOverrides ==
    /\ (InUser /\ CurBlk = "catch") =>
           LET v == ReturnValueIn(CurS(Cur), "catch")
               r == ReturnMacro(Cur, v)
           IN  /\ ~r.ub
               /\ r.pc = "user"
               /\ <<CurA(r), CurS(r)>> = <<CurA(Cur), CurS(Cur)>>
               /\ CurSite(r).blk = "finally"
               /\ r.stack[r.pex].own = Here(CurA(Cur), CurS(Cur))
               /\ HeldReturn(r.stack[r.pex]) = v
    /\ (InUser /\ CurBlk = "finally" /\ PendingException) =>
           LET v == ReturnValueIn(CurS(Cur), "finally")
               r == ReturnMacro(Cur, v)
           IN  /\ ~r.ub
               /\ r.pc = "resolve"
               /\ <<CurA(r), CurS(r)>> = <<CurA(Cur), CurS(Cur)>>
               /\ r.stack[r.pex].own = Here(CurA(Cur), CurS(Cur))
               /\ HeldReturn(r.stack[r.pex]) = v
               /\ ReturnsOrPassesOn(r, v)
    /\ (/\ pc = "resolve"
        /\ CurSite(Cur).ret = "catch"
        /\ HeldReturn(exStack[pEx]) = ReturnValueIn(CurS(Cur), "catch")) =>
           ReturnsOrPassesOn(Cur, ReturnValueIn(CurS(Cur), "catch"))

\* the frame the catch clauses look at holds a pending return event
ReturnAtCatch ==
    /\ pc = "catch"
    /\ pEx > 0
    /\ exStack[pEx].state = "PENDING"
    /\ exStack[pEx].class = "ReturnEvent"

\* C19: no catch clause matches a return event: a frame that holds one is
\* never marked caught, no catch block runs for one, and the catch clauses
\* a return event is passed through, catch (Throwable, e) included, all
\* decline it, so that the catch block count of the try statement stays as
\* it was.
C19_ReturnNotCaught ==
    /\ \A i \in 1..Len(exStack) :
           exStack[i].class = "ReturnEvent" => exStack[i].state = "PENDING"
    /\ \A q \in CatchSites : Caught(q).class # "ReturnEvent"
    /\ ReturnAtCatch =>
           /\ \A c \in UserClasses :
                  ExceptCatch(Cur, c).stack[pEx].state = "PENDING"
           /\ LET r == EvalCatches(Cur, ck)
              IN  /\ ~r.ub
                  /\ r.pc # "catch"
                  /\ CurSite(r).blk # "catch"
                  /\ CurSite(r).ncatch = CurSite(Cur).ncatch

C19_Witness ==
    /\ ReturnAtCatch
    /\ ck = 1
    /\ Len(CurSite(Cur).catches) = 2
    /\ exStack[pEx].scope = "TRY"
    /\ exStack[pEx].prop

\* no try statement is open in any subroutine activation
OutsideAllTry == \A a \in 1..Len(cs) : cs[a].sites = <<>>

\* C20: the context exists exactly while the frame stack holds a frame, and
\* once the flow has left its outermost try statement, whichever way, there
\* is no context and no frame stack.
C20_ContextWhileFrames ==
    /\ exAlloc <=> exStack # <<>>
    /\ OutsideAllTry => (~exAlloc /\ exStack = <<>> /\ pEx = 0)

\* the message the audit owes catch clause <k>: the first clause before it
\* whose class is its class or an ancestor of it decides
Covering(k) == FirstMatch(aCatches[k], SubSeq(aCatches, 1, k - 1))

Owed(k) ==
    LET j == Covering(k)
    IN  IF aCatches[j] = aCatches[k]
        THEN DuplicateCatch(aCatches[k], AuditFile, CatchLine(k), CatchLine(j))
        ELSE SuperfluousCatch(aCatches[k], AuditFile, CatchLine(k),
                              aCatches[j], CatchLine(j))

OwedMessages == { Owed(k) : k \in { i \in 1..Len(aCatches) : Covering(i) > 0 } }

CatchMessages ==
    { diag[i] : i \in { n \in 1..Len(diag) :
                          diag[n].kind # "No catch clause(s)" } }

\* C21: every message about a catch clause is the one owed to a clause that
\* an earlier clause covers: it names the line of the clause and the line
\* of the first earlier clause of the same class (Duplicate) or of an
\* ancestor class (Superfluous); a clause no earlier clause covers gets
\* none; and when the audit of the try statement is finished every clause
\* that is covered has got its message.
C21_AuditMessages ==
    /\ CatchMessages \subseteq OwedMessages
    /\ checked = 1 => OwedMessages \subseteq CatchMessages

C21_Witness ==
    /\ checked = 1
    /\ Len(aCatches) = 3
    /\ \E m \in CatchMessages : m.kind = "Duplicate catch" /\ m.at = CatchLine(1)
    /\ \E m \in CatchMessages : /\ m.kind = "Superfluous catch"
                                /\ m.line = CatchLine(3)
    /\ \A m \in CatchMessages : m.line # CatchLine(1)

NoCatchMessages ==
    { i \in 1..Len(diag) : diag[i].kind = "No catch clause(s)" }

\* C22: a try statement without catch clauses gets one warning that names
\* its file and line, however often and by however many flows it is
\* executed; a try statement with a catch clause gets none.
C22_OneNoCatchWarning ==
    /\ \A i \in NoCatchMessages : diag[i] = NoCatchWarning(AuditFile, TryLine)
    /\ aCatches # <<>> => NoCatchMessages = {}
    /\ aCatches = <<>> =>
           /\ Cardinality(NoCatchMessages) <= 1
           /\ checked = 1 => Cardinality(NoCatchMessages) = 1

\* assert(0) fails now, in a source file compiled with DO_ABORT = doAbort
AssertNow(doAbort) ==
    AssertAction(Cur, doAbort, AssertExpr, AssertFile, AssertLineIn(CurBlk))

\* C23: an assertion that fails while the scope of the top frame is TRY,
\* CATCH or FINALLY is a throw of FailedAssertion: the frame holds the
\* class pending, with the text of the expression as data and the file and
\* line of the assertion, and no message is printed; one that fails
\* outside changes no frame, prints the message and aborts only if
\* DO_ABORT is set.
C23_FailedAssertion ==
    /\ InUser =>
           \A doAbort \in {0, 1} :
               LET r == AssertNow(doAbort)
               IN  IF ExceptGetScope(Cur) \in {"TRY", "CATCH", "FINALLY"}
                   THEN /\ ~r.ub
                        /\ r.pc \in {"catch", "user", "resolve"}
                        /\ r.ev.kind # "failed"
                        /\ r.pex = pEx
                        /\ r.stack[r.pex].state = "PENDING"
                        /\ r.stack[r.pex].class = "FailedAssertion"
                        /\ r.stack[r.pex].pData = UserData(AssertExpr)
                        /\ r.stack[r.pex].file = AssertFile
                        /\ r.stack[r.pex].line = AssertLineIn(CurBlk)
                   ELSE /\ ~r.ub
                        /\ r.stack = exStack
                        /\ r.pex = pEx
                        /\ r.ev = EvFailed(doAbort, AssertExpr, AssertFile,
                                           AssertLineIn(CurBlk))
                        /\ (r.pc = "killed") <=> (doAbort = 1)
    /\ ev.kind = "failed" => ((pc = "killed") <=> (ev.val = 1))

\* C24: in a finally block the pending test is true exactly when the frame
\* of the try statement holds an exception that was thrown and not caught;
\* it is false when the block is entered at the end of the try block or of
\* a catch block, and when it is entered because of a return().
C24_PendingTest ==
    (InUser /\ CurBlk = "finally" /\ pEx > 0) =>
        (pending(Cur) <=> PendingException)

\* C25: the cleanup of a ceased flow whose stack holds n >= 1 frames removes
\* the context, passes exactly the n frames to free(), each once and nothing
\* else, reads no frame it has freed, and in the build with shared handlers
\* counts numThreadsTry down once.
C25_CleanupFreesFrames ==
    cleaned.by # "none" =>
        /\ ~flows[cleaned.of].ctx \/ cleaned.of \in ceased
        /\ Range(cleaned.freed) = cleaned.frames
        /\ Len(cleaned.freed) = Cardinality(cleaned.frames)
        /\ ~cleaned.readFreed
        /\ cleaned.outcome = "done"
        /\ cleaned.counted = IF SHARE_HANDLERS THEN -1 ELSE 0

\* the flows that are in a protected section
InSection == { f \in Flows : thr[f].held > 0 }

\* C28: at most one flow is in a protected section; the flow that is in one
\* enters a nested one without locking the POSIX mutex, and when it is
\* outside ExceptMutex() the mutex counts as many acquisitions as the flow
\* has made and not yet released, so that another flow enters only after
\* all of them are released.
C28_MutualExclusion ==
    /\ Cardinality(InSection) <= 1
    /\ ~mx.blocked
    /\ \A f \in InSection :
           At(f, "out") => mx.tid = f /\ mx.owner = f /\ mx.count = thr[f].held

\* C29: however the first calls of ExceptMutex() interleave,
\* pthread_mutex_init() is executed once, and the POSIX mutex is not locked
\* or unlocked before that call has returned.
C29_InitialisedOnce ==
    /\ mx.inits <= 1
    /\ ~mx.early

\* flow <f> is in the blocks of a try statement
InTry(f) == job[f].in \in {"try", "catch", "lost"}

\* C26: with several flows in try statements, every frame of a context was
\* pushed by the flow that owns the context and holds no exception of
\* another flow; a flow in user code inside its try statement finds its own
\* context, with its frame, in the store; and no exception it throws there
\* is lost and no flow is stopped for want of its context.
C26_FlowsIndependent ==
    /\ \A c \in 1..Len(ctxs) : \A i \in 1..Len(ctxs[c].stack) :
           /\ ctxs[c].stack[i].by = ctxs[c].owner
           /\ ctxs[c].stack[i].exc \in {NoFlow, ctxs[c].owner}
    /\ \A f \in Flows :
           /\ job[f].in \notin {"lost", "crashed"}
           /\ (InUserCode(f) /\ InTry(f)) =>
                  /\ store.made
                  /\ store.of[f] = job[f].mine
                  /\ Usable(job[f].mine)
                  /\ ctxs[job[f].mine].owner = f
                  /\ ctxs[job[f].mine].stack # <<>>

\* the contexts that own a frame stack with a frame
WithFrames ==
    { c \in 1..Len(ctxs) : Usable(c) /\ ctxs[c].stack # <<>> }

\* C27: with shared handlers numThreadsTry is never negative, and whenever
\* every flow is in user code it is the number of contexts whose stack
\* holds a frame, the handlers are those of the translation if it is not 0
\* and those that were saved if it is 0.
C27_CountsFlowsInTry ==
    SHARE_HANDLERS =>
        /\ numThreadsTry >= 0
        /\ (\A f \in Flows : InUserCode(f)) =>
               /\ numThreadsTry = Cardinality(WithFrames)
               /\ \A f \in Flows :
                      sigDisp[f] = IF numThreadsTry > 0 THEN Translating
                                   ELSE Prior

\* C30: wherever the flow is after an engine operation, in user code or in
\* the code of the macros, pC->pEx is the top element of the frame stack,
\* and it is NULL exactly when the stack is empty or does not exist.
C30_TopPointer ==
    pc \notin UBOutcomes =>
        /\ pEx = Len(exStack)
        /\ pEx = 0 <=> (exStack = <<>> \/ ~exAlloc)

\* an inner try statement has ended and the flow is in user code in the
\* enclosing one, on whose frame pC->pEx is set again
C30_Witness ==
    /\ InUser
    /\ exited # {}
    /\ pEx >= 1
    /\ pEx = Len(exStack)
    /\ exAlloc

\* C31: whenever the flow executes user code, every frame on its stack whose
\* scope is TRY has state EMPTY.  (While the catch clauses are evaluated
\* after a throw in the try block the frame is in scope TRY with state
\* PENDING: ExceptThrow() sets the state before it jumps.)
C31_TryFrameEmpty ==
    InUser =>
        \A i \in 1..Len(exStack) :
            exStack[i].scope = "TRY" => exStack[i].state = "EMPTY"

\* the frames on the stack that the subroutine activation <a> pushed
FramesOfActivation(a) ==
    { i \in 1..Len(exStack) : exStack[i].own.a = a }

\* C32: among the frames on the stack that one subroutine activation
\* pushed at most one has first set, whether its try statements are placed
\* in a try block, a catch block or a finally block of another of its try
\* statements.
C32_OneFirstFrame ==
    pc \notin UBOutcomes =>
        \A a \in 1..Len(cs) :
            Cardinality({ i \in FramesOfActivation(a) : exStack[i].first }) <= 1

\* the states in which ExceptCatch(pC, class) can be called: there is a top
\* frame, and if an exception is pending its class is known
CatchCallable ==
    /\ pc \notin UBOutcomes
    /\ pEx > 0
    /\ exStack[pEx].state = "PENDING" => exStack[pEx].class # NULL

\* the top frame holds a pending exception of <class> or of a class derived
\* from it
Matches(class) ==
    /\ exStack[pEx].state = "PENDING"
    /\ class \in ChainOf(exStack[pEx].class)

ScopeMoves ==
    {<<"INTERNAL", "TRY">>, <<"TRY", "CATCH">>, <<"TRY", "FINALLY">>,
     <<"CATCH", "FINALLY">>}

\* the frames that are on the stack before and after a step
Staying ==
    { i \in 1..Len(exStack) : i <= Len(exStack') }

\* C34: the scope of a frame only moves forward, from the setup to TRY, from
\* TRY to CATCH or FINALLY and from CATCH to FINALLY, whatever is thrown,
\* returned or passed on; and the catch clauses of a try statement are
\* evaluated, after a jump to the throw target, only while the scope of its
\* frame is TRY.
C34_ScopeForward ==
    [][ /\ \A i \in Staying :
              \/ exStack'[i].scope = exStack[i].scope
              \/ <<exStack[i].scope, exStack'[i].scope>> \in ScopeMoves
        /\ (pc' = "catch" /\ pEx' > 0) => exStack'[pEx'].scope = "TRY" ]_vars

\* the outermost ExceptFinally() is about to find an exception pending
PendingAtExit ==
    /\ pc = "resolve"
    /\ exAlloc
    /\ Len(exStack) = 1
    /\ exStack[1].state = "PENDING"
    /\ exStack[1].class \in UserClasses

\* C35: when an exception reaches the outermost exit, ExceptFinally()
\* destroys the frame stack and the context once on every path, also when
\* raise() returns to it; it destroys nothing twice and uses nothing it has
\* freed.
C35_DestroyedOnce ==
    PendingAtExit =>
        LET r == ExceptFinally(Cur)
        IN  /\ ~r.ub
            /\ ~r.alloc
            /\ r.stack = <<>>
            /\ r.pex = 0

\* C36: when a subroutine activation has returned through return(x), no
\* frame it pushed is on the stack: the stack holds the frames of the
\* activations that are left, as at the entry of the one that returned, also
\* when the return() is executed in a try statement inside the finally block
\* of the outermost try statement of the activation.
C36_ReturnPopsAll ==
    (ev.kind = "ret" /\ pc \notin UBOutcomes) =>
        /\ \A i \in 1..Len(exStack) :
               exStack[i].own # Stale /\ exStack[i].own.a <= Len(cs)
        /\ Len(exStack) =
               Cardinality({ q \in SiteIds : q[1] <= Len(cs) })

\* C37: a flow that executes user code of a try, catch or finally block is in
\* no protected section and does not hold the mutex: every engine operation
\* has called ExceptMutex(0) as often as ExceptMutex(1) when it returns or
\* jumps, also when a trap was delivered inside a protected section.
C37_MutexFreeInUserCode ==
    \A f \in Flows :
        (InUserCode(f) /\ job[f].in \in {"try", "catch", "lost"}) =>
            /\ thr[f].held = 0
            /\ mx.owner # f
            /\ mx.tid # f

\* C38: when the outermost ExceptFinally() finds an uncaught exception of a
\* class derived from RuntimeException, the signal it raises is one of the
\* five trap signals, the one of the class of the exception, and never 0,
\* whether the exception was made of a delivered signal or thrown by user
\* code.
C38_RaisedSignalOfClass ==
    (PendingAtExit /\ ExceptIsDerived(exStack[1].class, "RuntimeException")) =>
        /\ signalNumber[exStack[1].class] \in Signals
        /\ SignalClass[signalNumber[exStack[1].class]] = exStack[1].class
        /\ LET r == ExceptFinally(Cur)
           IN  r.ev.kind = "raise" =>
                   /\ r.ev.sig = signalNumber[exStack[1].class]
                   /\ r.ev.class = exStack[1].class

\* ExceptGetMessage(): the text is made of pC->pEx->class->name, pC->pEx->file
\* and pC->pEx->line, where pC->pEx is the frame on top of the stack
ExceptGetMessage(r) ==
    IF r.pex = 0 \/ r.stack[r.pex].class = NULL THEN Undefined(r)
    ELSE [r EXCEPT !.ev = [EvNone EXCEPT !.kind = "message",
                                         !.class = r.stack[r.pex].class,
                                         !.file = r.stack[r.pex].file,
                                         !.line = r.stack[r.pex].line]]

\* ExceptGetData(): pC->pEx->pData of the frame on top of the stack
ExceptGetData(r) ==
    IF r.pex = 0 THEN NullData ELSE r.stack[r.pex].pData

\* the try statements of the running activation whose catch block the flow
\* is in; the variable e in scope is the one of the innermost of them
CatchSitesHere == { q \in CatchSites : q[1] = Len(cs) }
InnermostCatch ==
    CHOOSE q \in CatchSitesHere : \A p \in CatchSitesHere : p[2] <= q[2]

\* C39: at every point of a catch block, e->getMessage() and e->getData()
\* report the class, file, line and data of the exception caught by the
\* clause, also while a try statement nested in the catch block is active.
C39_GettersReportCaught ==
    (InUser /\ pc \notin UBOutcomes /\ CatchSitesHere # {}) =>
        LET ex == Caught(InnermostCatch)
            m  == ExceptGetMessage(Cur)
        IN  /\ ~m.ub
            /\ m.ev.class = ex.class
            /\ m.ev.file = ex.file
            /\ m.ev.line = ex.line
            /\ ExceptGetData(Cur) = ex.pData

\* the propagation that is followed has ended in a catch block or in the
\* default action of the outermost level
Ended == unwind.end \in {"catch", "default"}

\* ExceptFinally() was called at most once for each frame open at the throw,
\* the finally blocks entered are those of these frames, innermost first
\* (those that enclose the throw statement have been entered before),
\* and the end is a catch block of a clause that matches the exception
\* thrown, or the default action for it after all frames were popped
InOrder ==
    /\ unwind.steps <= unwind.n
    /\ LET NotYet(f) == f.scope # "FINALLY"
           due == SelectSeq(unwind.open, NotYet)
       IN  /\ Len(unwind.fins) <= Len(due)
           /\ \A i \in 1..Len(unwind.fins) : unwind.fins[i] = due[i].at
           /\ unwind.end = "default" => Len(unwind.fins) = Len(due)
           /\ unwind.end = "catch" =>
                  /\ Len(unwind.fins) < Len(due)
                  /\ due[Len(unwind.fins) + 1].at = Here(CurA(Cur), CurS(Cur))
    /\ unwind.end # "undefined"
    /\ unwind.end = "catch" =>
           /\ unwind.clause # NULL
           /\ ExceptIsDerived(unwind.thrown.class, unwind.clause)
           /\ unwind.caught = unwind.thrown
    /\ unwind.end = "default" =>
           /\ unwind.steps = unwind.n
           /\ unwind.caught.class = unwind.thrown.class
           /\ unwind.caught.file = unwind.thrown.file
           /\ unwind.caught.line = unwind.thrown.line

\* C40: when the user blocks terminate and throw or return nothing more, a
\* throw at stack depth n >= 1 ends in a catch block of a matching clause or
\* in the default action of the outermost level, after at most n calls of
\* ExceptFinally(), and the finally blocks of the frames unwound run
\* innermost first, also when the frames belong to several activations.
C40_ThrowEnds ==
    /\ [](unwind.n > 0 => InOrder)
    /\ (unwind.n > 0) ~> Ended

============================================================================
